---------------------------- MODULE Spec2Model ----------------------------
(***************************************************************************)
(* Model of the CDBG survey scripts: the extraction helpers of             *)
(* hw3_data_cleaning.py (2022-2026) and hw3_stretch_goal_cleaning.py       *)
(* (2016-2022), the per-sheet extraction, and the funded/submitted         *)
(* aggregates of the reporting scripts.                                    *)
(*                                                                         *)
(* A text is a sequence of one-character strings.  A worksheet cell is a   *)
(* record [k, s, n]: k = "nan" (empty cell, read by pandas as NaN),        *)
(* "none" (Python None), "str" (text s), "int" (integer n) or "float"      *)
(* (the float n.0).  A float result is a record [k, neg, mant, frac]:      *)
(* k = "nan", "inf", or "num" with value (-1)^neg * mant / 10^frac, mant   *)
(* a text of decimal digits.                                               *)
(***************************************************************************)
EXTENDS Integers, Sequences, FiniteSets, TLC

VARIABLES
    pc,        \* position of the run being modelled
    arg,       \* the cell value handed to a helper function
    res,       \* what the helper returned
    script,    \* which extraction script runs: "2022_2026" or "2016_2022"
    workbook,  \* the worksheets of the workbook, each [name, cols, rows]
    all_data,  \* main()'s list of the DataFrames returned for the sheets
    table,     \* the normalized table files of the output directory
    report,    \* the aggregates computed by the reporting scripts
    runs       \* history: what each clean call of each run of main() located

vars == <<pc, arg, res, script, workbook, all_data, table, report, runs>>

-----------------------------------------------------------------------------
(* Bounds of the model *)

\* most tokens concatenated into one to_number input text
MaxNumTokens == 4

\* most words concatenated into one Type / Priority input text
MaxClsTokens == 2

\* most rows below the header of a worksheet
MaxRows == 2

-----------------------------------------------------------------------------
(* Text primitives: str.lower, str.upper, str.strip, str.replace, "in" *)

UpperChars == <<"A","B","C","D","E","F","G","H","I","J","K","L","M",
                "N","O","P","Q","R","S","T","U","V","W","X","Y","Z">>

LowerChars == <<"a","b","c","d","e","f","g","h","i","j","k","l","m",
                "n","o","p","q","r","s","t","u","v","w","x","y","z">>

DigitChars == <<"0","1","2","3","4","5","6","7","8","9">>

Range(f) == {f[i] : i \in DOMAIN f}

DigitSet == Range(DigitChars)

IsDigit(c) == c \in DigitSet

\* int(c) for one decimal digit
DigitVal(c) == (CHOOSE i \in DOMAIN DigitChars : DigitChars[i] = c) - 1

UpperSet == Range(UpperChars)

LowerSet == Range(LowerChars)

\* the lower-case letter of each upper-case letter, and the reverse
LowerOf ==
    [c \in UpperSet |-> LowerChars[CHOOSE i \in DOMAIN UpperChars : UpperChars[i] = c]]

UpperOf ==
    [c \in LowerSet |-> UpperChars[CHOOSE i \in DOMAIN LowerChars : LowerChars[i] = c]]

LowerChar(c) == IF c \in UpperSet THEN LowerOf[c] ELSE c

UpperChar(c) == IF c \in LowerSet THEN UpperOf[c] ELSE c

Lower(s) == [i \in DOMAIN s |-> LowerChar(s[i])]

Upper(s) == [i \in DOMAIN s |-> UpperChar(s[i])]

IsSpace(c) == c = " "

\* str.strip(): leading and trailing whitespace removed
Strip(s) ==
    IF \A i \in DOMAIN s : IsSpace(s[i])
    THEN << >>
    ELSE LET a == CHOOSE i \in DOMAIN s :
                      ~IsSpace(s[i]) /\ \A j \in 1..(i-1) : IsSpace(s[j])
             b == CHOOSE i \in DOMAIN s :
                      ~IsSpace(s[i]) /\ \A j \in (i+1)..Len(s) : IsSpace(s[j])
         IN SubSeq(s, a, b)

\* str.replace(c, ""): every occurrence of the character removed
RemoveChar(s, c) == SelectSeq(s, LAMBDA x : x # c)

\* sub occurs in s at position i (1-based)
MatchAt(sub, s, i) ==
    /\ i >= 1
    /\ i + Len(sub) - 1 <= Len(s)
    /\ \A j \in 1..Len(sub) : s[i + j - 1] = sub[j]

\* Python's "sub in s"
Contains(sub, s) == \E i \in 1..(Len(s) + 1) : MatchAt(sub, s, i)

RECURSIVE Concat(_)
\* "".join(parts)
Concat(parts) ==
    IF parts = << >> THEN << >> ELSE Head(parts) \o Concat(Tail(parts))

RECURSIVE DigitsToNat(_)
\* the decimal value of a text made of digits (0 for the empty text)
DigitsToNat(ds) ==
    IF ds = << >> THEN 0
    ELSE 10 * DigitsToNat(SubSeq(ds, 1, Len(ds) - 1)) + DigitVal(ds[Len(ds)])

RECURSIVE NatToText(_)
\* str(n) for a non-negative integer
NatToText(n) ==
    IF n < 10 THEN <<DigitChars[n + 1]>>
    ELSE NatToText(n \div 10) \o <<DigitChars[(n % 10) + 1]>>

-----------------------------------------------------------------------------
(* Cell values and float results *)

NaNCell == [k |-> "nan", s |-> << >>, n |-> 0]

NoneCell == [k |-> "none", s |-> << >>, n |-> 0]

StrCell(t) == [k |-> "str", s |-> t, n |-> 0]

IntCell(v) == [k |-> "int", s |-> << >>, n |-> v]

FloatCell(v) == [k |-> "float", s |-> << >>, n |-> v]

\* pd.isna(value)
isna(value) == value.k \in {"nan", "none"}

\* str(value)
str(value) ==
    CASE value.k = "nan"   -> <<"n","a","n">>
      [] value.k = "none"  -> <<"N","o","n","e">>
      [] value.k = "str"   -> value.s
      [] value.k = "int"   -> NatToText(value.n)
      [] value.k = "float" -> NatToText(value.n) \o <<".","0">>

NaN == [k |-> "nan", neg |-> FALSE, mant |-> << >>, frac |-> 0]

Inf(neg) == [k |-> "inf", neg |-> neg, mant |-> << >>, frac |-> 0]

RECURSIVE Normalize(_, _, _)
\* the float (-1)^neg * ds / 10^frac, ds a text of decimal digits, in lowest
\* decimal form: no leading zero, no trailing zero behind the point (the
\* digits are kept as text; every input of the model has fewer than 16
\* digits, which a double represents exactly)
Normalize(neg, ds, frac) ==
    IF \A i \in DOMAIN ds : ds[i] = "0"
      THEN [k |-> "num", neg |-> FALSE, mant |-> <<"0">>, frac |-> 0]
    ELSE IF frac > 0 /\ ds[Len(ds)] = "0"
      THEN Normalize(neg, SubSeq(ds, 1, Len(ds) - 1), frac - 1)
    ELSE IF ds[1] = "0"
      THEN Normalize(neg, Tail(ds), frac)
    ELSE [k |-> "num", neg |-> neg, mant |-> ds, frac |-> frac]

\* the float of a non-negative integer
Num(v) == Normalize(FALSE, NatToText(v), 0)

notna(x) == x.k # "nan"

\* float(s): optional sign, then inf / infinity / nan in any case, or decimal
\* digits with at most one point and at least one digit; anything else is a
\* ValueError, reported here as "error".  (Exponents and "_" digit separators
\* are not modelled: no input text of the model holds "e" next to digits or "_".)
float(s) ==
    LET t == Strip(s)
        signed == t # << >> /\ t[1] \in {"-", "+"}
        neg == t # << >> /\ t[1] = "-"
        u == IF signed THEN Tail(t) ELSE t
        lu == Lower(u)
        points == {i \in DOMAIN u : u[i] = "."}
        digits == SelectSeq(u, IsDigit)
        p == IF points = {} THEN Len(u) ELSE CHOOSE i \in points : TRUE
    IN IF lu \in {<<"i","n","f">>, <<"i","n","f","i","n","i","t","y">>}
         THEN Inf(neg)
       ELSE IF lu = <<"n","a","n">>
         THEN NaN
       ELSE IF /\ \A i \in DOMAIN u : IsDigit(u[i]) \/ u[i] = "."
               /\ Cardinality(points) <= 1
               /\ digits # << >>
         THEN Normalize(neg, digits, Len(u) - p)
       ELSE [k |-> "error", neg |-> FALSE, mant |-> << >>, frac |-> 0]

\* to_number of both extraction scripts (the bare "except" turns every
\* failure of float() into NaN)
to_number(value) ==
    IF isna(value) THEN NaN
    ELSE LET s == Strip(RemoveChar(RemoveChar(str(value), ","), "$"))
             f == float(s)
         IN IF f.k = "error" THEN NaN ELSE f

-----------------------------------------------------------------------------
(* Category names returned by the classifiers *)

SocialServices == <<"S","o","c","i","a","l"," ","S","e","r","v","i","c","e","s">>

ConstructionDevelopment ==
    <<"C","o","n","s","t","r","u","c","t","i","o","n","/",
      "D","e","v","e","l","o","p","m","e","n","t">>

Admin == <<"A","d","m","i","n">>

Planning == <<"P","l","a","n","n","i","n","g">>

Other == <<"O","t","h","e","r">>

Unknown == <<"U","n","k","n","o","w","n">>

ANGHP == <<"A","N","G","H","P">>

EO == <<"E","O">>

NI == <<"N","I">>

HA == <<"H","A">>

BN == <<"B","N">>

SN == <<"S","N">>

WS == <<"W","S">>

\* the enumeration of App_Type in the data model
AppTypes == {SocialServices, ConstructionDevelopment, Admin, Planning, Other}

\* the enumeration of Priority_Category in the data model
PriorityCategories == {ANGHP, EO, NI, HA, BN, SN, WS, Unknown, Other}

-----------------------------------------------------------------------------
(* Keywords the helpers search for *)

\* the literal texts the functions search for or compare with
kw ==
    [social |-> <<"s","o","c","i","a","l">>,
     ss |-> <<"s","s">>,
     con |-> <<"c","o","n">>,
     dev |-> <<"d","e","v">>,
     econ |-> <<"e","c","o","n">>,
     admin |-> <<"a","d","m","i","n">>,
     ap |-> <<"a","p">>,
     planning |-> <<"p","l","a","n","n","i","n","g">>,
     NAN |-> <<"N","A","N">>,
     NONE |-> <<"N","O","N","E">>,
     ALL |-> <<"A","L","L">>,
     HOMELESS |-> <<"H","O","M","E","L","E","S","S">>,
     ECONOMIC |-> <<"E","C","O","N","O","M","I","C">>,
     NEIGHBORHOOD |-> <<"N","E","I","G","H","B","O","R","H","O","O","D">>,
     HOUSING |-> <<"H","O","U","S","I","N","G">>,
     total |-> <<"t","o","t","a","l">>,
     subtotal |-> <<"s","u","b","t","o","t","a","l">>,
     available |-> <<"a","v","a","i","l","a","b","l","e">>,
     cap |-> <<"c","a","p">>,
     estimated |-> <<"e","s","t","i","m","a","t","e","d">>,
     type |-> <<"t","y","p","e">>,
     priority |-> <<"p","r","i","o","r","i","t","y">>,
     impact |-> <<"i","m","p","a","c","t">>,
     organization |-> <<"o","r","g","a","n","i","z","a","t","i","o","n">>,
     project |-> <<"p","r","o","j","e","c","t">>,
     program |-> <<"p","r","o","g","r","a","m">>,
     request |-> <<"r","e","q","u","e","s","t">>,
     avg |-> <<"a","v","g">>,
     score |-> <<"s","c","o","r","e">>,
     guiding |-> <<"g","u","i","d","i","n","g">>,
     principle |-> <<"p","r","i","n","c","i","p","l","e">>,
     capacity |-> <<"c","a","p","a","c","i","t","y">>,
     deliver |-> <<"d","e","l","i","v","e","r">>,
     collaboration |-> <<"c","o","l","l","a","b","o","r","a","t","i","o","n">>,
     partnership |-> <<"p","a","r","t","n","e","r","s","h","i","p">>,
     pt |-> <<"p","t">>,
     p30 |-> <<"3","0">>,
     p25 |-> <<"2","5">>,
     p15 |-> <<"1","5">>,
     y2022 |-> <<"2","0","2","2">>,
     y2023 |-> <<"2","0","2","3">>]

-----------------------------------------------------------------------------
(* Classifiers of the 2022-2026 script (hw3_data_cleaning.py) *)

classify_app_type(text) ==
    LET s == Lower(Strip(str(text)))
    IN IF Contains(kw.social, s) \/ s = kw.ss THEN SocialServices
       ELSE IF \E x \in {kw.con, kw.dev, kw.econ} : Contains(x, s)
         THEN ConstructionDevelopment
       ELSE IF Contains(kw.admin, s) \/ s = kw.ap THEN Admin
       ELSE IF Contains(kw.planning, s) THEN Planning
       ELSE Other

\* classify_priority with the no-match case returning the text itself
classify_priority_passthrough(text) ==
    LET s == Upper(Strip(str(text)))
    IN IF s \in {kw.NAN, kw.NONE, << >>, kw.ALL} THEN Unknown
       ELSE IF Contains(kw.HOMELESS, s) \/ Contains(ANGHP, s) THEN ANGHP
       ELSE IF Contains(kw.ECONOMIC, s) \/ Contains(EO, s) THEN EO
       ELSE IF Contains(kw.NEIGHBORHOOD, s) \/ Contains(NI, s) THEN NI
       ELSE IF Contains(kw.HOUSING, s) \/ Contains(HA, s) THEN HA
       ELSE s

\* classify_priority with the NI test ahead of the EO test
classify_priority_ni_first(text) ==
    LET s == Upper(Strip(str(text)))
    IN IF s \in {kw.NAN, kw.NONE, << >>, kw.ALL} THEN Unknown
       ELSE IF Contains(kw.HOMELESS, s) \/ Contains(ANGHP, s) THEN ANGHP
       ELSE IF Contains(kw.NEIGHBORHOOD, s) \/ Contains(NI, s) THEN NI
       ELSE IF Contains(kw.ECONOMIC, s) \/ Contains(EO, s) THEN EO
       ELSE IF Contains(kw.HOUSING, s) \/ Contains(HA, s) THEN HA
       ELSE Other

\* classify_priority with the test of HOUSING and HA ahead of the test of
\* ECONOMIC and EO
classify_priority_housing_first(text) ==
    LET s == Upper(Strip(str(text)))
    IN IF s \in {kw.NAN, kw.NONE, << >>, kw.ALL} THEN Unknown
       ELSE IF Contains(kw.HOMELESS, s) \/ Contains(ANGHP, s) THEN ANGHP
       ELSE IF Contains(kw.HOUSING, s) \/ Contains(HA, s) THEN HA
       ELSE IF Contains(kw.ECONOMIC, s) \/ Contains(EO, s) THEN EO
       ELSE IF Contains(kw.NEIGHBORHOOD, s) \/ Contains(NI, s) THEN NI
       ELSE Other

classify_priority(text) ==
    LET s == Upper(Strip(str(text)))
    IN IF s \in {kw.NAN, kw.NONE, << >>, kw.ALL} THEN Unknown
       ELSE IF Contains(kw.HOMELESS, s) \/ Contains(ANGHP, s) THEN ANGHP
       ELSE IF Contains(kw.ECONOMIC, s) \/ Contains(EO, s) THEN EO
       ELSE IF Contains(kw.NEIGHBORHOOD, s) \/ Contains(NI, s) THEN NI
       ELSE IF Contains(kw.HOUSING, s) \/ Contains(HA, s) THEN HA
       ELSE Other

(* Classifiers of the 2016-2022 script (hw3_stretch_goal_cleaning.py) *)

stretch_classify_app_type(text) ==
    LET s == Lower(Strip(str(text)))
    IN IF Contains(kw.social, s) \/ s = kw.ss THEN SocialServices
       ELSE IF \E x \in {kw.con, kw.dev, kw.econ} : Contains(x, s)
         THEN ConstructionDevelopment
       ELSE Other

\* the classifier of the 2016-2022 script with the legacy codes tested first
stretch_classify_priority_legacy_first(text) ==
    LET s == Upper(Strip(str(text)))
    IN IF s \in {kw.NAN, kw.NONE, << >>, kw.ALL} THEN Unknown
       ELSE IF Contains(BN, s) THEN BN
       ELSE IF Contains(SN, s) THEN SN
       ELSE IF Contains(WS, s) THEN WS
       ELSE IF Contains(kw.HOMELESS, s) \/ Contains(ANGHP, s) THEN ANGHP
       ELSE IF Contains(kw.ECONOMIC, s) \/ Contains(EO, s) THEN EO
       ELSE IF Contains(kw.NEIGHBORHOOD, s) \/ Contains(NI, s) THEN NI
       ELSE IF Contains(kw.HOUSING, s) \/ Contains(HA, s) THEN HA
       ELSE Other

stretch_classify_priority(text) ==
    LET s == Upper(Strip(str(text)))
    IN IF s \in {kw.NAN, kw.NONE, << >>, kw.ALL} THEN Unknown
       ELSE IF Contains(kw.HOMELESS, s) \/ Contains(ANGHP, s) THEN ANGHP
       ELSE IF Contains(kw.ECONOMIC, s) \/ Contains(EO, s) THEN EO
       ELSE IF Contains(kw.NEIGHBORHOOD, s) \/ Contains(NI, s) THEN NI
       ELSE IF Contains(kw.HOUSING, s) \/ Contains(HA, s) THEN HA
       ELSE IF Contains(BN, s) THEN BN
       ELSE IF Contains(SN, s) THEN SN
       ELSE IF Contains(WS, s) THEN WS
       ELSE Other

-----------------------------------------------------------------------------
(* Row filter and year extraction (identical in both scripts) *)

\* is_summary_row searching the text as written, not lower-cased
is_summary_row_case_sensitive(org) ==
    IF isna(org) THEN TRUE
    ELSE LET s == str(org)
         IN \E k \in {kw.total, kw.subtotal, kw.available, kw.cap, kw.estimated} :
                Contains(k, s)

\* re.search(r"total|subtotal|available|cap|estimated", str(org).lower())
is_summary_row(org) ==
    IF isna(org) THEN TRUE
    ELSE LET s == Lower(str(org))
         IN \E k \in {kw.total, kw.subtotal, kw.available, kw.cap, kw.estimated} :
                Contains(k, s)

\* positions where r"20\d{2}" matches
YearMatches(s) ==
    {i \in 1..Len(s) : /\ MatchAt(<<"2","0">>, s, i)
                       /\ i + 3 <= Len(s)
                       /\ IsDigit(s[i + 2])
                       /\ IsDigit(s[i + 3])}

\* extract_year: int of the first match, else NaN
extract_year(text) ==
    LET s == str(text)
        ms == YearMatches(s)
    IN IF ms = {} THEN NaN
       ELSE LET i == CHOOSE i \in ms : \A j \in ms : i <= j
            IN Num(DigitsToNat(SubSeq(s, i, i + 3)))

-----------------------------------------------------------------------------
(* Inputs of the helper functions *)

\* every sequence of at most n members of T
TokenSeqs(T, n) == UNION {[1..k -> T] : k \in 0..n}

\* pieces of currency cells: "$", ",", blanks, digit groups, a point, a
\* sign, and two words without digits
NumTokens ==
    {<<"$">>, <<",">>, <<" ">>, <<"1","2">>, <<"5","0","0">>, <<"0">>,
     <<".">>, <<"-">>, <<"i","n","f">>, <<"x">>}

NumTexts == {Concat(ts) : ts \in TokenSeqs(NumTokens, MaxNumTokens)}

\* a cell as pandas hands it to to_number: empty, None, a number or a text
NumInputs ==
    {NaNCell, NoneCell, IntCell(88), FloatCell(88)}
        \cup {StrCell(x) : x \in NumTexts}

\* words of the Type and Priority columns, in mixed case
ClsTokens ==
    {<<"S","o","c","i","a","l">>, <<"S","S">>, <<"C","o","n">>,
     <<"D","e","v">>, <<"A","d","m","i","n">>, <<"a","p">>,
     <<"P","l","a","n","n","i","n","g">>,
     <<"H","o","m","e","l","e","s","s">>, <<"A","N","G","H","P">>,
     <<"E","c","o","n","o","m","i","c">>, <<"E","O">>,
     <<"N","e","i","g","h","b","o","r","h","o","o","d">>, <<"N","I">>,
     <<"H","o","u","s","i","n","g">>, <<"H","A">>, <<"B","N">>,
     <<"S","N">>, <<"W","S">>, <<"N","o","n","e">>, <<"a","l","l">>,
     <<"N","A","N">>, <<" ">>, <<"x">>,
     <<"G","e","o","g","r","a","p","h","i","c">>}

ClsTexts == {Concat(ts) : ts \in TokenSeqs(ClsTokens, MaxClsTokens)}

ClsInputs ==
    {NaNCell, NoneCell, IntCell(88), FloatCell(88)}
        \cup {StrCell(x) : x \in ClsTexts}

-----------------------------------------------------------------------------
(* Values of the variables a run does not use *)

NoCell == NaNCell

\* the tables of the output directory, by the script that writes them
OutputFile ==
    [s \in {"2022_2026", "2016_2022"} |->
        IF s = "2022_2026" THEN "cleaned_data_2022_2026.csv"
        ELSE "cleaned_data_2016_2022.csv"]

TableFiles == {OutputFile[s] : s \in DOMAIN OutputFile}

\* a table that does not exist
NoFile == [exists |-> FALSE, columns |-> << >>, rows |-> << >>]

\* an output directory without a table
NoFiles == [f \in TableFiles |-> NoFile]

NoResult == [fn |-> "none"]

-----------------------------------------------------------------------------
(* to_number applied to one cell *)

InitNum ==
    /\ pc = "call_to_number"
    /\ arg \in NumInputs
    /\ res = NoResult
    /\ script = "none"
    /\ workbook = << >>
    /\ all_data = << >>
    /\ table = NoFiles
    /\ report = << >>
    /\ runs = << << >> >>

ToNumber ==
    /\ pc = "call_to_number"
    /\ res' = [fn |-> "to_number", out |-> to_number(arg)]
    /\ pc' = "ret_to_number"
    /\ UNCHANGED <<arg, script, workbook, all_data, table, report, runs>>

NextNum == ToNumber

SpecNum == InitNum /\ [][NextNum]_vars

-----------------------------------------------------------------------------
(* The four classifiers applied to one cell, then each to its own result *)

InitCls ==
    /\ pc = "call_classify_app_type"
    /\ arg \in ClsInputs
    /\ res = NoResult
    /\ script = "none"
    /\ workbook = << >>
    /\ all_data = << >>
    /\ table = NoFiles
    /\ report = << >>
    /\ runs = << << >> >>

ClassifyAppType ==
    /\ pc = "call_classify_app_type"
    /\ res' = [fn |-> "classify", app |-> classify_app_type(arg)]
    /\ pc' = "call_classify_priority"
    /\ UNCHANGED <<arg, script, workbook, all_data, table, report, runs>>

ClassifyPriority ==
    /\ pc = "call_classify_priority"
    /\ res' = [fn |-> "classify", app |-> res.app,
               pri |-> classify_priority(arg)]
    /\ pc' = "call_stretch_classify_app_type"
    /\ UNCHANGED <<arg, script, workbook, all_data, table, report, runs>>

StretchClassifyAppType ==
    /\ pc = "call_stretch_classify_app_type"
    /\ res' = [fn |-> "classify", app |-> res.app, pri |-> res.pri,
               sapp |-> stretch_classify_app_type(arg)]
    /\ pc' = "call_stretch_classify_priority"
    /\ UNCHANGED <<arg, script, workbook, all_data, table, report, runs>>

StretchClassifyPriority ==
    /\ pc = "call_stretch_classify_priority"
    /\ res' = [fn |-> "classify", app |-> res.app, pri |-> res.pri,
               sapp |-> res.sapp,
               spri |-> stretch_classify_priority(arg)]
    /\ pc' = "classified"
    /\ UNCHANGED <<arg, script, workbook, all_data, table, report, runs>>

\* each classifier applied to the category name it returned
Reclassify ==
    /\ pc = "classified"
    /\ res' = [fn |-> "reclassify",
               app |-> res.app, pri |-> res.pri,
               sapp |-> res.sapp, spri |-> res.spri,
               app2 |-> classify_app_type(StrCell(res.app)),
               pri2 |-> classify_priority(StrCell(res.pri)),
               sapp2 |-> stretch_classify_app_type(StrCell(res.sapp)),
               spri2 |-> stretch_classify_priority(StrCell(res.spri))]
    /\ pc' = "reclassified"
    /\ UNCHANGED <<arg, script, workbook, all_data, table, report, runs>>

NextCls ==
    \/ ClassifyAppType
    \/ ClassifyPriority
    \/ StretchClassifyAppType
    \/ StretchClassifyPriority
    \/ Reclassify

SpecCls == InitCls /\ [][NextCls]_vars

-----------------------------------------------------------------------------
(* Properties of the helper functions *)

\* "$", then digit groups separated by ",": one to three digits, then
\* groups of exactly three (read from the right, every fourth character is
\* a "," and the others are digits)
IsCurrencyText(v) ==
    /\ v.k = "str"
    /\ Len(v.s) >= 6
    /\ v.s[1] = "$"
    /\ v.s[2] # ","
    /\ \A i \in 2..Len(v.s) :
           IF (Len(v.s) - i + 1) % 4 = 0 THEN v.s[i] = "," ELSE IsDigit(v.s[i])

\* a null cell, or a text that once "," and "$" are taken out and it is
\* trimmed is empty or holds a character no decimal numeral holds
IsAbsentOrNonNumeric(v) ==
    \/ isna(v)
    \/ /\ v.k = "str"
       /\ LET u == Strip(RemoveChar(RemoveChar(v.s, ","), "$"))
          IN \/ u = << >>
             \/ \E i \in DOMAIN u : ~(IsDigit(u[i]) \/ u[i] \in {".", "+", "-"})

\* C1: to_number returns the decimal value of the digits of every "$" text
\* with thousands separators, and NaN (never 0, never an exception) for every
\* null, empty, whitespace-only or non-numeric cell.
C1_ToNumberCurrencyOrNaN ==
    pc = "ret_to_number" =>
        /\ IsCurrencyText(arg) =>
               res.out = Normalize(FALSE, SelectSeq(arg.s, IsDigit), 0)
        /\ IsAbsentOrNonNumeric(arg) => res.out = NaN

\* C7: each classifier returns, for every cell value (text, empty text, null,
\* number), one category of its fixed enumeration.
C7_ClassifiersTotal ==
    /\ pc \in {"classified", "reclassified"} =>
           /\ res.app \in AppTypes
           /\ res.sapp \in AppTypes
           /\ res.pri \in PriorityCategories
           /\ res.spri \in PriorityCategories
    /\ pc = "reclassified" =>
           /\ res.app2 \in AppTypes
           /\ res.sapp2 \in AppTypes
           /\ res.pri2 \in PriorityCategories
           /\ res.spri2 \in PriorityCategories

\* C7 witness: a null cell has been classified by all four classifiers
C7_Witness ==
    /\ pc = "classified"
    /\ arg = NaNCell
    /\ res.app = Other
    /\ res.pri = Unknown
    /\ res.spri = Unknown

\* a rule [cat, sub, eq] matches a text holding a member of sub or equal to
\* a member of eq
RuleMatches(r, s) == (\E k \in r.sub : Contains(k, s)) \/ s \in r.eq

\* the category of the first rule of the list that matches, else dflt
FirstMatch(rules, s, dflt) ==
    LET hits == {i \in DOMAIN rules : RuleMatches(rules[i], s)}
    IN IF hits = {} THEN dflt
       ELSE rules[CHOOSE i \in hits : \A j \in hits : i <= j].cat

\* social -> construction/development -> admin -> planning
AppTypeRules ==
    << [cat |-> SocialServices, sub |-> {kw.social}, eq |-> {kw.ss}],
       [cat |-> ConstructionDevelopment, sub |-> {kw.con, kw.dev, kw.econ},
        eq |-> {}],
       [cat |-> Admin, sub |-> {kw.admin}, eq |-> {kw.ap}],
       [cat |-> Planning, sub |-> {kw.planning}, eq |-> {}] >>

\* C8: in both scripts classify_app_type is the first match, on the trimmed
\* lower-cased text, of social -> construction/development -> admin ->
\* planning, else Other.
C8_AppTypeFirstMatchBothScripts ==
    pc \in {"classified", "reclassified"} =>
        LET s == Lower(Strip(str(arg)))
        IN /\ res.app = FirstMatch(AppTypeRules, s, Other)
           /\ res.sapp = FirstMatch(AppTypeRules, s, Other)

\* ANGHP, EO, NI, HA
ModernPriorityRules ==
    << [cat |-> ANGHP, sub |-> {kw.HOMELESS, ANGHP}, eq |-> {}],
       [cat |-> EO, sub |-> {kw.ECONOMIC, EO}, eq |-> {}],
       [cat |-> NI, sub |-> {kw.NEIGHBORHOOD, NI}, eq |-> {}],
       [cat |-> HA, sub |-> {kw.HOUSING, HA}, eq |-> {}] >>

\* BN, SN, WS
LegacyPriorityRules ==
    << [cat |-> BN, sub |-> {BN}, eq |-> {}],
       [cat |-> SN, sub |-> {SN}, eq |-> {}],
       [cat |-> WS, sub |-> {WS}, eq |-> {}] >>

\* Unknown for a null cell or a placeholder, else the first matching code
PriorityByRules(v, placeholders, rules) ==
    LET s == Upper(Strip(str(v)))
    IN IF isna(v) \/ s \in placeholders THEN Unknown
       ELSE FirstMatch(rules, s, Other)

\* C9 as stated: the placeholders are "NONE", "" and "ALL" (and a null cell);
\* every other text gets the first matching code of ANGHP, EO, NI, HA, then
\* (2016-2022 only) BN, SN, WS, else Other.
C9_PriorityPlaceholdersAsStated ==
    pc \in {"classified", "reclassified"} =>
        /\ res.pri = PriorityByRules(arg, {kw.NONE, << >>, kw.ALL},
                                     ModernPriorityRules)
        /\ res.spri = PriorityByRules(arg, {kw.NONE, << >>, kw.ALL},
                          ModernPriorityRules \o LegacyPriorityRules)

\* C9 amended: the placeholders are "NAN", "NONE", "" and "ALL" (and a null
\* cell); every other text gets the first matching code of ANGHP, EO, NI, HA,
\* then (2016-2022 only) BN, SN, WS, else Other; a text with HOMELESS and
\* HOUSING is ANGHP; the 2022-2026 classifier never returns BN, SN or WS.
C9_PriorityFirstMatch ==
    pc \in {"classified", "reclassified"} =>
        LET s == Upper(Strip(str(arg)))
        IN /\ res.pri = PriorityByRules(arg, {kw.NAN, kw.NONE, << >>, kw.ALL},
                                        ModernPriorityRules)
           /\ res.spri = PriorityByRules(arg, {kw.NAN, kw.NONE, << >>, kw.ALL},
                             ModernPriorityRules \o LegacyPriorityRules)
           /\ Contains(kw.HOMELESS, s) /\ Contains(kw.HOUSING, s) =>
                  res.pri = ANGHP /\ res.spri = ANGHP
           /\ res.spri \in {BN, SN, WS} => res.pri = Other
           /\ res.pri \notin {BN, SN, WS}

\* C9 witness: a text with a legacy code and a modern code got the modern
\* code from the 2016-2022 classifier
C9_Witness ==
    /\ pc = "classified"
    /\ arg = StrCell(BN \o <<"H","o","u","s","i","n","g">>)
    /\ res.pri = HA
    /\ res.spri = HA

\* C10: each classifier maps every category name it returns to itself.
C10_ClassifiersIdempotent ==
    pc = "reclassified" =>
        /\ res.app2 = res.app
        /\ res.sapp2 = res.sapp
        /\ res.pri2 = res.pri
        /\ res.spri2 = res.spri

\* C23: the 2022-2026 priority classifier returns EO for every text that,
\* in upper case, holds "EO" and neither "HOMELESS" nor "ANGHP", also when
\* the text names another priority.
C23_EOSubstringWins ==
    pc \in {"classified", "reclassified"} =>
        LET s == Upper(str(arg))
        IN (/\ Contains(EO, s)
            /\ ~Contains(kw.HOMELESS, s)
            /\ ~Contains(ANGHP, s))
               => res.pri = EO

\* C23 witness: "GeographicHousing" has been classified EO
C23_Witness ==
    /\ pc = "classified"
    /\ arg = StrCell(<<"G","e","o","g","r","a","p","h","i","c",
                       "H","o","u","s","i","n","g">>)
    /\ res.pri = EO

\* C28: the classifiers of the two scripts agree on what reaches the tables:
\* one returns Social Services, or Construction/Development, exactly when
\* the other does, and where the 2022-2026 priority classifier returns a
\* value other than Other the 2016-2022 classifier returns the same value.
C28_ClassifiersAgree ==
    pc \in {"classified", "reclassified"} =>
        /\ res.app = SocialServices <=> res.sapp = SocialServices
        /\ res.app = ConstructionDevelopment
               <=> res.sapp = ConstructionDevelopment
        /\ res.pri # Other => res.spri = res.pri

\* C28 witness: a text with a legacy code and the code EO has been
\* classified EO by both scripts
C28_Witness ==
    /\ pc = "classified"
    /\ arg = StrCell(<<"B","N","E","O">>)
    /\ res.pri = EO
    /\ res.spri = EO
    /\ res.app = Other
    /\ res.sapp = Other

-----------------------------------------------------------------------------
(* Column location *)

\* Python's None, or an int, for a column index that may be absent
None == [some |-> FALSE, i |-> 0]

Some(i) == [some |-> TRUE, i |-> i]

\* the truth value Python gives an optional index: None and 0 are false
Truthy(o) == o.some /\ o.i # 0

\* str(c).lower() for the columns c
ColNames(cols) == {Lower(str(cols[i])) : i \in DOMAIN cols}

\* the 0-based indices of the columns whose lower-cased name passes test, a
\* Boolean function on ColNames(cols)
ColsWhere(cols, test) ==
    {i \in 0..(Len(cols) - 1) : test[Lower(str(cols[i + 1]))]}

\* next((i for i, c in enumerate(cols) if test[str(c).lower()]), dflt)
FirstCol(cols, test, dflt) ==
    LET hits == ColsWhere(cols, test)
    IN IF hits = {} THEN dflt ELSE CHOOSE i \in hits : \A j \in hits : i <= j

\* the same with an optional result: dflt is None or Some(i)
FirstColOpt(cols, test, dflt) ==
    LET hits == ColsWhere(cols, test)
    IN IF hits = {} THEN dflt
       ELSE Some(CHOOSE i \in hits : \A j \in hits : i <= j)

\* any(yr in sheet_name for yr in ["2022", "2023"])
IsPointValuePeriod(sheet_name) ==
    Contains(kw.y2022, sheet_name) \/ Contains(kw.y2023, sheet_name)

\* col_idx of clean_sheet taking any "score" column for Total_Score
col_idx_any_score(cols) ==
    [Type |-> FirstCol(cols, [c \in ColNames(cols) |-> Contains(kw.type, c)], 1),
     Priority |-> FirstCol(cols, [c \in ColNames(cols) |-> Contains(kw.priority, c)
                                            /\ ~Contains(kw.impact, c)], 2),
     Org |-> FirstCol(cols, [c \in ColNames(cols) |-> Contains(kw.organization, c)], 3),
     Project |-> FirstCol(cols, [c \in ColNames(cols) |-> Contains(kw.project, c)
                                           \/ Contains(kw.program, c)], 4),
     Request |-> FirstCol(cols, [c \in ColNames(cols) |-> Contains(kw.request, c)], 5),
     Award |-> Len(cols) - 1,
     Total_Score |-> FirstColOpt(cols, [c \in ColNames(cols) |-> Contains(kw.score, c)],
                                 IF Len(cols) > 12 THEN Some(12) ELSE None)]

\* col_idx of clean_sheet looking for the award column by its name
col_idx_award_by_name(cols) ==
    [Type |-> FirstCol(cols, [c \in ColNames(cols) |-> Contains(kw.type, c)], 1),
     Priority |-> FirstCol(cols, [c \in ColNames(cols) |->
                                     Contains(kw.priority, c)
                                     /\ ~Contains(kw.impact, c)], 2),
     Org |-> FirstCol(cols, [c \in ColNames(cols) |->
                                Contains(kw.organization, c)], 3),
     Project |-> FirstCol(cols, [c \in ColNames(cols) |->
                                    Contains(kw.project, c)
                                    \/ Contains(kw.program, c)], 4),
     Request |-> FirstCol(cols, [c \in ColNames(cols) |->
                                    Contains(kw.request, c)], 5),
     Award |-> FirstCol(cols, [c \in ColNames(cols) |->
                                  Contains(<<"a","w","a","r","d">>, c)],
                        Len(cols) - 1),
     Total_Score |-> FirstColOpt(cols, [c \in ColNames(cols) |->
                                           Contains(kw.avg, c)
                                           /\ Contains(kw.score, c)],
                                 IF Len(cols) > 12 THEN Some(12) ELSE None)]

\* col_idx of clean_sheet
col_idx(cols) ==
    [Type |-> FirstCol(cols, [c \in ColNames(cols) |-> Contains(kw.type, c)], 1),
     Priority |-> FirstCol(cols, [c \in ColNames(cols) |-> Contains(kw.priority, c)
                                            /\ ~Contains(kw.impact, c)], 2),
     Org |-> FirstCol(cols, [c \in ColNames(cols) |-> Contains(kw.organization, c)], 3),
     Project |-> FirstCol(cols, [c \in ColNames(cols) |-> Contains(kw.project, c)
                                           \/ Contains(kw.program, c)], 4),
     Request |-> FirstCol(cols, [c \in ColNames(cols) |-> Contains(kw.request, c)], 5),
     Award |-> Len(cols) - 1,
     Total_Score |-> FirstColOpt(cols, [c \in ColNames(cols) |-> Contains(kw.avg, c)
                                                  /\ Contains(kw.score, c)],
                                 IF Len(cols) > 12 THEN Some(12) ELSE None)]

\* col_idx of clean_2016_2022_sheet
stretch_col_idx(cols) ==
    [Type |-> FirstCol(cols, [c \in ColNames(cols) |-> Contains(kw.type, c)], 1),
     Priority |-> FirstCol(cols, [c \in ColNames(cols) |-> Contains(kw.priority, c)
                                            /\ ~Contains(kw.impact, c)], 2),
     Org |-> FirstCol(cols, [c \in ColNames(cols) |-> Contains(kw.organization, c)], 3),
     Project |-> FirstCol(cols, [c \in ColNames(cols) |-> Contains(kw.project, c)
                                           \/ Contains(kw.program, c)], 4),
     Request |-> FirstCol(cols, [c \in ColNames(cols) |-> Contains(kw.request, c)], 5),
     Award |-> Len(cols) - 1,
     Total_Score |-> FirstColOpt(cols, [c \in ColNames(cols) |-> Contains(kw.total, c)
                                                  \/ Contains(kw.score, c)],
                                 None)]

\* the loop of Method 1 in which a header that holds either keyword of a
\* pair takes the branch of that pair
BreakdownSlot_either_keyword(c) ==
    IF Contains(kw.priority, c) \/ Contains(kw.impact, c) THEN "Score_Impact"
    ELSE IF Contains(kw.guiding, c) \/ Contains(kw.principle, c)
      THEN "Score_Principles"
    ELSE IF Contains(kw.capacity, c) \/ Contains(kw.deliver, c)
      THEN "Score_Capacity"
    ELSE IF Contains(kw.collaboration, c) \/ Contains(kw.partnership, c)
      THEN "Score_Collab"
    ELSE "none"

\* the branch of the if/elif chain of Method 1 a lower-cased column name takes
BreakdownSlot(c) ==
    IF Contains(kw.priority, c) /\ Contains(kw.impact, c) THEN "Score_Impact"
    ELSE IF Contains(kw.guiding, c) /\ Contains(kw.principle, c)
      THEN "Score_Principles"
    ELSE IF Contains(kw.capacity, c) /\ Contains(kw.deliver, c)
      THEN "Score_Capacity"
    ELSE IF Contains(kw.collaboration, c) \/ Contains(kw.partnership, c)
      THEN "Score_Collab"
    ELSE "none"

\* Method 1: the loop assigns a slot at every column that takes its branch,
\* so the last such column stays
KeywordSlot(cols, slot) ==
    LET hits == ColsWhere(cols, [c \in ColNames(cols) |-> BreakdownSlot(c) = slot])
    IN IF hits = {} THEN None
       ELSE Some(CHOOSE i \in hits : \A j \in hits : i >= j)

RECURSIVE SortedIndices(_)
\* the members of a set of ints as an ascending sequence
SortedIndices(S) ==
    IF S = {} THEN << >>
    ELSE LET m == CHOOSE i \in S : \A j \in S : i <= j
         IN <<m>> \o SortedIndices(S \ {m})

\* Method 2: pts_cols[k][0] if the expected points are in pts_cols[k][1]
PointSlot(cols, pts_cols, k, points) ==
    IF Contains(points, str(cols[pts_cols[k] + 1]))
    THEN Some(pts_cols[k]) ELSE None

\* score_breakdown of clean_sheet when Method 1 has run and Method 2 has not
Method1(cols) ==
    [Score_Impact |-> KeywordSlot(cols, "Score_Impact"),
     Score_Principles |-> KeywordSlot(cols, "Score_Principles"),
     Score_Capacity |-> KeywordSlot(cols, "Score_Capacity"),
     Score_Collab |-> KeywordSlot(cols, "Score_Collab")]

\* score_breakdown of clean_sheet in which a point-value column fills only a
\* slot the column names left empty
score_breakdown_keyword_first(sheet_name, cols) ==
    LET pts_cols == SortedIndices(ColsWhere(cols,
                        [c \in ColNames(cols) |-> Contains(kw.pt, c)]))
        slot(name, k, points) ==
            IF KeywordSlot(cols, name).some THEN KeywordSlot(cols, name)
            ELSE PointSlot(cols, pts_cols, k, points)
    IN IF IsPointValuePeriod(sheet_name) /\ Len(pts_cols) >= 4
       THEN [Score_Impact |-> slot("Score_Impact", 1, kw.p30),
             Score_Principles |-> slot("Score_Principles", 2, kw.p30),
             Score_Capacity |-> slot("Score_Capacity", 3, kw.p25),
             Score_Collab |-> slot("Score_Collab", 4, kw.p15)]
       ELSE [Score_Impact |-> KeywordSlot(cols, "Score_Impact"),
             Score_Principles |-> KeywordSlot(cols, "Score_Principles"),
             Score_Capacity |-> KeywordSlot(cols, "Score_Capacity"),
             Score_Collab |-> KeywordSlot(cols, "Score_Collab")]

\* score_breakdown of clean_sheet
score_breakdown(sheet_name, cols) ==
    LET pts_cols == SortedIndices(ColsWhere(cols,
                        [c \in ColNames(cols) |-> Contains(kw.pt, c)]))
    IN IF IsPointValuePeriod(sheet_name) /\ Len(pts_cols) >= 4
       THEN [Score_Impact |-> PointSlot(cols, pts_cols, 1, kw.p30),
             Score_Principles |-> PointSlot(cols, pts_cols, 2, kw.p30),
             Score_Capacity |-> PointSlot(cols, pts_cols, 3, kw.p25),
             Score_Collab |-> PointSlot(cols, pts_cols, 4, kw.p15)]
       ELSE [Score_Impact |-> KeywordSlot(cols, "Score_Impact"),
             Score_Principles |-> KeywordSlot(cols, "Score_Principles"),
             Score_Capacity |-> KeywordSlot(cols, "Score_Capacity"),
             Score_Collab |-> KeywordSlot(cols, "Score_Collab")]

-----------------------------------------------------------------------------
(* Row extraction *)

\* df.dropna(how="all"): rows whose cells are all empty are removed
dropna_all(rows) == SelectSeq(rows, LAMBDA r : \E i \in DOMAIN r : ~isna(r[i]))

\* row.iloc[i] exists (a negative i counts from the end)
InRow(row, i) == i >= 0 - Len(row) /\ i < Len(row)

\* row.iloc[i]
iloc(row, i) == IF i >= 0 THEN row[i + 1] ELSE row[Len(row) + i + 1]

\* to_number(row.iloc[idx]) if idx is not None else np.nan
BreakdownValue(row, o) == IF o.some THEN to_number(iloc(row, o.i)) ELSE NaN

\* to_number(row.iloc[col_idx["Total_Score"]]) if col_idx["Total_Score"]
\* else np.nan
TotalScoreValue(row, o) == IF Truthy(o) THEN to_number(iloc(row, o.i)) ELSE NaN

\* the indices one data row is read at once it is known not to be a summary
\* row
FieldIndices(ci) ==
    {ci.Project, ci.Type, ci.Priority, ci.Request, ci.Award}
        \cup (IF Truthy(ci.Total_Score) THEN {ci.Total_Score.i} ELSE {})

\* the record clean_2016_2022_sheet appends for a data row, with the two
\* columns the classifiers add to the DataFrame
stretch_record(year, ci, row) ==
    [Year |-> year,
     Organization |-> Strip(str(iloc(row, ci.Org))),
     Project |-> iloc(row, ci.Project),
     Type |-> iloc(row, ci.Type),
     Priority |-> iloc(row, ci.Priority),
     Funding_Request |-> to_number(iloc(row, ci.Request)),
     Funding_Award |-> to_number(iloc(row, ci.Award)),
     Total_Score |-> TotalScoreValue(row, ci.Total_Score),
     App_Type |-> stretch_classify_app_type(iloc(row, ci.Type)),
     Priority_Category |-> stretch_classify_priority(iloc(row, ci.Priority))]

\* the record clean_sheet appends for a data row, with the two columns the
\* classifiers add to the DataFrame
record(year, ci, sb, row) ==
    [Year |-> year,
     Organization |-> Strip(str(iloc(row, ci.Org))),
     Project |-> iloc(row, ci.Project),
     Type |-> iloc(row, ci.Type),
     Priority |-> iloc(row, ci.Priority),
     Funding_Request |-> to_number(iloc(row, ci.Request)),
     Funding_Award |-> to_number(iloc(row, ci.Award)),
     Total_Score |-> TotalScoreValue(row, ci.Total_Score),
     Score_Impact |-> BreakdownValue(row, sb.Score_Impact),
     Score_Principles |-> BreakdownValue(row, sb.Score_Principles),
     Score_Capacity |-> BreakdownValue(row, sb.Score_Capacity),
     Score_Collab |-> BreakdownValue(row, sb.Score_Collab),
     App_Type |-> classify_app_type(iloc(row, ci.Type)),
     Priority_Category |-> classify_priority(iloc(row, ci.Priority))]

\* what the loop body does with one row: "IndexError" when a column index
\* lies outside the row, "skip" for a summary row, else "record"
RowOutcome(ci, row) ==
    IF ~InRow(row, ci.Org) THEN "IndexError"
    ELSE IF is_summary_row(iloc(row, ci.Org)) THEN "skip"
    ELSE IF \E i \in FieldIndices(ci) : ~InRow(row, i) THEN "IndexError"
    ELSE "record"

\* the rows the loop turns into records, in order
DataRows(ci, rows) == SelectSeq(rows, LAMBDA r : RowOutcome(ci, r) = "record")

\* the DataFrame a cleaning function returns, or the exception that ends it:
\* an IndexError from the loop, or the KeyError of result["Type"] on the
\* column-less DataFrame built from no record
Outcome(ci, rows, recs) ==
    IF \E k \in DOMAIN rows : RowOutcome(ci, rows[k]) = "IndexError"
      THEN [error |-> "IndexError", at |-> "row.iloc", rows |-> << >>]
    ELSE IF recs = << >>
      THEN [error |-> "KeyError", at |-> "result", rows |-> << >>]
    ELSE [error |-> "none", at |-> "none", rows |-> recs]

\* the raw grid of a worksheet: the rows above the header row, the header
\* row and the rows below it
Grid(sh) == sh.top \o <<sh.cols>> \o sh.rows

\* if any(yr in sheet_name for yr in ["2022", "2023"]): header = 2
PointValueHeader == 2

\* range(20)
HeaderSearchRows == 20

\* the default of next(..., 8)
HeaderFallback == 8

\* header = 1 of clean_2016_2022_sheet
StretchHeader == 1

\* "organization" in str(df_temp.iloc[i]).lower(): the text of a row lists
\* its cells (a row of more than 60 cells would be abbreviated)
RowMentionsOrganization(row) ==
    \E j \in DOMAIN row : Contains(kw.organization, Lower(str(row[j])))

\* Step 1 of clean_sheet: the header row, or the IndexError of
\* df_temp.iloc[i] once i reaches the end of a grid in which no earlier row
\* mentions "organization"
header_row(sheet_name, grid) ==
    IF IsPointValuePeriod(sheet_name)
      THEN [error |-> "none", i |-> PointValueHeader]
    ELSE LET hits == {i \in 0..(HeaderSearchRows - 1) :
                         i < Len(grid) /\ RowMentionsOrganization(grid[i + 1])}
         IN IF hits # {}
              THEN [error |-> "none",
                    i |-> CHOOSE i \in hits : \A j \in hits : i <= j]
            ELSE IF Len(grid) < HeaderSearchRows
              THEN [error |-> "IndexError", i |-> 0]
            ELSE [error |-> "none", i |-> HeaderFallback]

\* the column name pandas gives header cell i: an empty cell is named
\* "Unnamed: i", a repeated name gets the suffix ".1", ".2", ...
ColumnName(names, i) ==
    LET earlier == Cardinality({j \in 1..(i - 1) : names[j] = names[i]})
    IN IF isna(names[i])
         THEN StrCell(<<"U","n","n","a","m","e","d",":"," ">> \o NatToText(i - 1))
       ELSE IF earlier = 0 THEN names[i]
       ELSE StrCell(str(names[i]) \o <<".">> \o NatToText(earlier))

\* pd.read_excel(file_path, sheet_name=sheet_name, header=header), for a
\* header row inside the grid
read_excel(grid, header) ==
    [cols |-> [i \in DOMAIN grid[header + 1] |->
                   ColumnName(grid[header + 1], i)],
     rows |-> SubSeq(grid, header + 2, Len(grid))]

\* the outcome of clean_sheet when the header search raises
HeaderError == [error |-> "IndexError", at |-> "df_temp.iloc", rows |-> << >>]

\* clean_sheet(sheet_name, file_path)
clean_sheet(sh) ==
    LET h == header_row(sh.name, Grid(sh))
    IN IF h.error # "none" THEN HeaderError
       ELSE LET df == read_excel(Grid(sh), h.i)
                rows == dropna_all(df.rows)
                year == extract_year(StrCell(sh.name))
                ci == col_idx(df.cols)
                sb == score_breakdown(sh.name, df.cols)
                data == DataRows(ci, rows)
            IN Outcome(ci, rows,
                       [k \in DOMAIN data |-> record(year, ci, sb, data[k])])

\* clean_2016_2022_sheet(sheet_name, file_path)
clean_2016_2022_sheet(sh) ==
    LET df == read_excel(Grid(sh), StretchHeader)
        rows == dropna_all(df.rows)
        year == extract_year(StrCell(sh.name))
        ci == stretch_col_idx(df.cols)
        data == DataRows(ci, rows)
    IN Outcome(ci, rows,
               [k \in DOMAIN data |-> stretch_record(year, ci, data[k])])

\* what clean_sheet resolves before it reads the rows: the header row, the
\* column indices and the score breakdown columns
Resolution(sh) ==
    LET h == header_row(sh.name, Grid(sh))
    IN IF h.error # "none"
         THEN [header |-> h, col_idx |-> << >>, score_breakdown |-> << >>]
       ELSE LET df == read_excel(Grid(sh), h.i)
            IN [header |-> h,
                col_idx |-> col_idx(df.cols),
                score_breakdown |-> score_breakdown(sh.name, df.cols)]

\* the same for clean_2016_2022_sheet, which keeps no score breakdown
StretchResolution(sh) ==
    [header |-> [error |-> "none", i |-> StretchHeader],
     col_idx |-> stretch_col_idx(read_excel(Grid(sh), StretchHeader).cols),
     score_breakdown |-> << >>]

-----------------------------------------------------------------------------
(* Worksheets *)

\* sheet names: a period of the workbook, a year outside 2015..2026, no year
SheetNames ==
    {<<"2","0","2","2","-","2","3">>,
     <<"F","Y","2","0","3","1">>,
     <<"A","w","a","r","d","s">>}

\* the column names of end-to-end scenario A
ScenarioCols ==
    <<StrCell(<<"T","y","p","e">>),
      StrCell(<<"P","r","i","o","r","i","t","y">>),
      StrCell(<<"O","r","g","a","n","i","z","a","t","i","o","n">>),
      StrCell(<<"P","r","o","j","e","c","t">>),
      StrCell(<<"R","e","q","u","e","s","t">>),
      StrCell(<<"S","c","o","r","e">>),
      StrCell(<<"A","w","a","r","d">>)>>

\* the same columns with the score column named as in the 2022-2026 workbook
AvgScoreCols ==
    <<StrCell(<<"T","y","p","e">>),
      StrCell(<<"P","r","i","o","r","i","t","y">>),
      StrCell(<<"O","r","g","a","n","i","z","a","t","i","o","n">>),
      StrCell(<<"P","r","o","j","e","c","t">>),
      StrCell(<<"R","e","q","u","e","s","t">>),
      StrCell(<<"A","v","g"," ","S","c","o","r","e">>),
      StrCell(<<"A","w","a","r","d">>)>>

Layouts == {ScenarioCols, AvgScoreCols}

\* a row of either layout
SheetRow(org, award) ==
    <<StrCell(<<"S","S">>),
      StrCell(<<"H","o","u","s","i","n","g"," ","A","s","s","i","s","t","a","n","c","e">>),
      org,
      StrCell(<<"S","h","e","l","t","e","r"," ","B","u","i","l","d">>),
      StrCell(<<"$","1","2",",","5","0","0">>),
      StrCell(<<"8","8">>),
      award>>

AcmeCorp == StrCell(<<"A","c","m","e"," ","C","o","r","p">>)

TotalAvailableFunds == StrCell(<<"T","O","T","A","L"," ","A","V","A","I","L","A","B","L","E"," ","F","U","N","D","S">>)

\* an applicant, a summary label, a blank text and an empty cell
OrgCells == {AcmeCorp, TotalAvailableFunds, StrCell(<<" ">>), NaNCell}

\* an award in currency format and the empty text
AwardCells == {StrCell(<<"$","1","0",",","0","0","0">>), StrCell(<< >>)}

\* a row of empty cells
EmptyRow == [i \in 1..7 |-> NaNCell]

SheetRows ==
    {SheetRow(org, aw) : org \in OrgCells, aw \in AwardCells}
        \cup {EmptyRow}

\* a sheet below its header row: column names and rows
SheetBodies(names, cs, rowset) ==
    {[name |-> nm, cols |-> cs, rows |-> rs] :
        nm \in names, rs \in TokenSeqs(rowset, MaxRows)}

\* the title line of a worksheet, as wide as the sheet
TitleRow(width) ==
    [i \in 1..width |->
        IF i = 1 THEN StrCell(<<"C","D","B","G"," ","A","p","p","l","i","c","a","t","i","o","n","s">>) ELSE NaNCell]

BlankRow(width) == [i \in 1..width |-> NaNCell]

\* the rows above the header row: the workbook of 2022-2026 has its header
\* in row 2, the workbook of 2016-2022 in row 1
TopRows(scr, width) ==
    IF scr = "2022_2026" THEN <<TitleRow(width), BlankRow(width)>>
    ELSE <<TitleRow(width)>>

\* a sheet of the workbook a script reads
Titled(sh, scr) ==
    [name |-> sh.name, top |-> TopRows(scr, Len(sh.cols)),
     cols |-> sh.cols, rows |-> sh.rows]

\* seven columns none of which is named by a keyword of clean_sheet; the
\* fields sit at the default positions 1..5 and the award in the last column
PositionalCols ==
    <<StrCell(<<"A","w","a","r","d"," ","I","d">>),
      StrCell(<<"K","i","n","d">>),
      StrCell(<<"F","o","c","u","s">>),
      StrCell(<<"A","p","p","l","i","c","a","n","t">>),
      StrCell(<<"T","i","t","l","e">>),
      StrCell(<<"A","s","k","e","d">>),
      StrCell(<<"G","r","a","n","t","e","d">>)>>

PositionalRow(org) ==
    <<StrCell(<<"C","-","1">>),
      StrCell(<<"S","S">>),
      StrCell(<<"H","o","u","s","i","n","g"," ","A","s","s","i","s","t","a","n","c","e">>),
      org,
      StrCell(<<"S","h","e","l","t","e","r"," ","B","u","i","l","d">>),
      StrCell(<<"$","1","2",",","5","0","0">>),
      StrCell(<<"$","1","0",",","0","0","0">>)>>

\* two columns, with and without an Organization header
OrgOnlyCols ==
    <<StrCell(<<"O","r","g","a","n","i","z","a","t","i","o","n">>),
      StrCell(<<"A","m","o","u","n","t">>)>>

NamelessCols ==
    <<StrCell(<<"N","a","m","e">>),
      StrCell(<<"A","m","o","u","n","t">>)>>

ShortRow(org) == <<org, StrCell(<<"$","1","0",",","0","0","0">>)>>

\* the layout of AvgScoreCols with the score in the first column
ScoreFirstCols ==
    <<StrCell(<<"A","v","g"," ","S","c","o","r","e">>),
      StrCell(<<"T","y","p","e">>),
      StrCell(<<"P","r","i","o","r","i","t","y">>),
      StrCell(<<"O","r","g","a","n","i","z","a","t","i","o","n">>),
      StrCell(<<"P","r","o","j","e","c","t">>),
      StrCell(<<"R","e","q","u","e","s","t">>),
      StrCell(<<"A","w","a","r","d">>)>>

ScoreFirstRow(org) ==
    <<StrCell(<<"8","8">>),
      StrCell(<<"S","S">>),
      StrCell(<<"H","o","u","s","i","n","g"," ","A","s","s","i","s","t","a","n","c","e">>),
      org,
      StrCell(<<"S","h","e","l","t","e","r"," ","B","u","i","l","d">>),
      StrCell(<<"$","1","2",",","5","0","0">>),
      StrCell(<<"$","1","0",",","0","0","0">>)>>

Sheets ==
    UNION {SheetBodies(SheetNames, cs, SheetRows) : cs \in Layouts}
        \cup SheetBodies(SheetNames, ScoreFirstCols, {ScoreFirstRow(AcmeCorp)})
        \cup SheetBodies(SheetNames, PositionalCols,
                         {PositionalRow(o) : o \in {AcmeCorp, TotalAvailableFunds}})
        \cup UNION {SheetBodies(SheetNames, cs,
                                {ShortRow(o) : o \in {AcmeCorp, TotalAvailableFunds}}) :
                       cs \in {OrgOnlyCols, NamelessCols}}

\* a sheet without a year in its name and without an Organization header,
\* whose header is row 8 of a grid of 20 rows: eight lines of title, the
\* header, an application, nine empty rows and a closing note
TallSheet ==
    [name |-> <<"A","w","a","r","d","s">>,
     top |-> [i \in 1..8 |-> IF i = 1 THEN TitleRow(7) ELSE BlankRow(7)],
     cols |-> PositionalCols,
     rows |-> <<PositionalRow(AcmeCorp)>>
                  \o [i \in 1..9 |-> BlankRow(7)]
                  \o <<[i \in 1..7 |->
                           IF i = 1 THEN StrCell(<<"P","r","e","p","a","r","e","d"," ","b","y"," ","s","t","a","f","f">>)
                           ELSE NaNCell]>>]

Scripts == {"2022_2026", "2016_2022"}

-----------------------------------------------------------------------------
(* One extraction script reading the sheets of its workbook in turn *)

InitSheet ==
    /\ pc = "main"
    /\ arg = NoCell
    /\ res = NoResult
    /\ script \in Scripts
    /\ workbook \in {<<Titled(sh, script)>> : sh \in Sheets}
                      \cup (IF script = "2022_2026" THEN {<<TallSheet>>}
                            ELSE {})
    /\ all_data = << >>
    /\ table = NoFiles
    /\ report = << >>
    /\ runs = << << >> >>

\* a variant of CleanSheet that keeps the col_idx of the sheet read before
CleanSheet_cached ==
    /\ pc = "main"
    /\ script = "2022_2026"
    /\ Len(all_data) < Len(workbook)
    /\ LET sh == workbook[Len(all_data) + 1]
           df == clean_sheet(sh)
           rs == IF res.fn = "clean_sheet"
                 THEN [Resolution(sh) EXCEPT !.col_idx = res.col_idx]
                 ELSE Resolution(sh)
       IN /\ res' = [fn |-> "clean_sheet",
                     header |-> rs.header,
                     col_idx |-> rs.col_idx,
                     score_breakdown |-> rs.score_breakdown,
                     error |-> df.error,
                     at |-> df.at]
          /\ IF df.error = "none"
             THEN pc' = pc /\ all_data' = Append(all_data, df.rows)
             ELSE pc' = "raised" /\ all_data' = all_data
          /\ runs' = [runs EXCEPT ![Len(runs)] = Append(@, rs)]
    /\ UNCHANGED <<arg, script, workbook, table, report>>

\* main() of hw3_data_cleaning.py calls clean_sheet on the next worksheet
CleanSheet ==
    /\ pc = "main"
    /\ script = "2022_2026"
    /\ Len(all_data) < Len(workbook)
    /\ \E sh \in {workbook[Len(all_data) + 1]} :
       \E df \in {clean_sheet(sh)} :
       \E rs \in {Resolution(sh)} :
          /\ res' = [fn |-> "clean_sheet",
                     header |-> rs.header,
                     col_idx |-> rs.col_idx,
                     score_breakdown |-> rs.score_breakdown,
                     error |-> df.error,
                     at |-> df.at]
          /\ IF df.error = "none"
             THEN pc' = pc /\ all_data' = Append(all_data, df.rows)
             ELSE pc' = "raised" /\ all_data' = all_data
          /\ runs' = [runs EXCEPT ![Len(runs)] = Append(@, rs)]
    /\ UNCHANGED <<arg, script, workbook, table, report>>

\* main() of hw3_stretch_goal_cleaning.py calls clean_2016_2022_sheet on the
\* next worksheet
Clean2016Sheet ==
    /\ pc = "main"
    /\ script = "2016_2022"
    /\ Len(all_data) < Len(workbook)
    /\ \E sh \in {workbook[Len(all_data) + 1]} :
       \E df \in {clean_2016_2022_sheet(sh)} :
       \E rs \in {StretchResolution(sh)} :
          /\ res' = [fn |-> "clean_2016_2022_sheet",
                     header |-> rs.header,
                     col_idx |-> rs.col_idx,
                     score_breakdown |-> rs.score_breakdown,
                     error |-> df.error,
                     at |-> df.at]
          /\ IF df.error = "none"
             THEN pc' = pc /\ all_data' = Append(all_data, df.rows)
             ELSE pc' = "raised" /\ all_data' = all_data
          /\ runs' = [runs EXCEPT ![Len(runs)] = Append(@, rs)]
    /\ UNCHANGED <<arg, script, workbook, table, report>>

NextSheet ==
    \/ CleanSheet
    \/ Clean2016Sheet

SpecSheet == InitSheet /\ [][NextSheet]_vars

-----------------------------------------------------------------------------
(* Properties of the per-sheet extraction *)

SummaryKeywords == {kw.total, kw.subtotal, kw.available, kw.cap, kw.estimated}

\* the sheet has a column headed "Organization"
HasOrgColumn(sh) ==
    \E i \in DOMAIN sh.cols : Lower(str(sh.cols[i])) = kw.organization

\* the position of the column headed "Organization"
OrgColumn(sh) ==
    CHOOSE i \in DOMAIN sh.cols : Lower(str(sh.cols[i])) = kw.organization

\* the Organization cell is missing or its text holds a summary keyword
OrgIsSummary(org) ==
    isna(org) \/ \E k \in SummaryKeywords : Contains(k, Lower(str(org)))

\* the rows of a sheet whose Organization cell is present and holds no
\* summary keyword
NonSummaryRows(sh) ==
    SelectSeq(sh.rows, LAMBDA r : ~OrgIsSummary(r[OrgColumn(sh)]))

\* C2: a row whose Organization cell is missing or holds "total",
\* "subtotal", "available", "cap" or "estimated" in any case emits no record,
\* whatever its other cells: every record of a sheet comes from one of the
\* other rows, and there are no more records than such rows.
C2_SummaryRowsEmitNoRecord ==
    \A k \in DOMAIN all_data :
        HasOrgColumn(workbook[k]) =>
        LET sh == workbook[k]
            kept == NonSummaryRows(sh)
        IN /\ Len(all_data[k]) <= Len(kept)
           /\ \A j \in DOMAIN all_data[k] :
                  \E m \in DOMAIN kept :
                      /\ all_data[k][j].Organization
                             = Strip(str(kept[m][OrgColumn(sh)]))
                      /\ all_data[k][j].Funding_Award
                             = to_number(kept[m][Len(kept[m])])

\* C2 witness: a sheet with a "TOTAL AVAILABLE FUNDS" row and an applicant's
\* row has been extracted to one record
C2_Witness ==
    /\ pc = "main"
    /\ Len(all_data) = 1
    /\ Len(workbook[1].rows) = 2
    /\ HasOrgColumn(workbook[1])
    /\ \E i \in 1..2 : workbook[1].rows[i][OrgColumn(workbook[1])]
                           = TotalAvailableFunds
    /\ Len(all_data[1]) = 1
    /\ all_data[1][1].Organization = AcmeCorp.s

\* the worksheet of end-to-end scenario A, read by clean_sheet
IsScenarioA ==
    /\ script = "2022_2026"
    /\ res.fn = "clean_sheet"
    /\ workbook[1].cols = ScenarioCols
    /\ workbook[1].rows
           = <<SheetRow(AcmeCorp, StrCell(<<"$","1","0",",","0","0","0">>))>>

\* C3 as stated: scenario A yields exactly one record with App_Type Social
\* Services, Priority_Category HA, Funding_Request 12500.0, Funding_Award
\* 10000.0 and Total_Score 88.0.
C3_ScenarioAWithScore ==
    IsScenarioA =>
        /\ pc = "main"
        /\ Len(all_data) = 1
        /\ Len(all_data[1]) = 1
        /\ all_data[1][1].App_Type = SocialServices
        /\ all_data[1][1].Priority_Category = HA
        /\ all_data[1][1].Funding_Request = Num(12500)
        /\ all_data[1][1].Funding_Award = Num(10000)
        /\ all_data[1][1].Total_Score = Num(88)

\* C3 amended: scenario A yields exactly one record with App_Type Social
\* Services, Priority_Category HA, Funding_Request 12500.0, Funding_Award
\* 10000.0 and Total_Score absent (no header holds both "avg" and "score",
\* and the sheet has fewer than 13 columns).
C3_ScenarioAScoreAbsent ==
    IsScenarioA =>
        /\ pc = "main"
        /\ Len(all_data) = 1
        /\ Len(all_data[1]) = 1
        /\ all_data[1][1].App_Type = SocialServices
        /\ all_data[1][1].Priority_Category = HA
        /\ all_data[1][1].Funding_Request = Num(12500)
        /\ all_data[1][1].Funding_Award = Num(10000)
        /\ all_data[1][1].Total_Score = NaN
        /\ res.col_idx.Total_Score = None

\* C3 witness: scenario A has been extracted
C3_Witness ==
    /\ IsScenarioA
    /\ Len(all_data) = 1
    /\ all_data[1][1].Organization = AcmeCorp.s

\* the keywords by which clean_sheet and clean_2016_2022_sheet find the
\* columns of Type, Priority, Organization, Project and Request
FieldKeywords ==
    [Type |-> {kw.type},
     Priority |-> {kw.priority},
     Org |-> {kw.organization},
     Project |-> {kw.project, kw.program},
     Request |-> {kw.request}]

\* no header cell of the sheet holds the keyword of field f
LacksField(sh, f) ==
    \A i \in DOMAIN sh.cols :
        \A w \in FieldKeywords[f] : ~Contains(w, Lower(str(sh.cols[i])))

\* C11: on a worksheet whose header row lacks the keyword of Type, Priority,
\* Organization, Project or Request, whatever its number of columns, the
\* cleaning function does not raise when it reads the fields of a row.
C11_MissingColumnsNeverAbort ==
    (/\ res.fn \in {"clean_sheet", "clean_2016_2022_sheet"}
     /\ \E f \in DOMAIN FieldKeywords : LacksField(workbook[1], f))
        => ~(res.error = "IndexError" /\ res.at = "row.iloc")

\* the header row as stated for clean_sheet: 2 for a sheet name with "2022"
\* or "2023", else the first of the rows 0..19 that mentions "organization",
\* else 8
StatedHeader(sheet_name, grid) ==
    IF Contains(kw.y2022, sheet_name) \/ Contains(kw.y2023, sheet_name) THEN 2
    ELSE LET found == {i \in 0..19 : i < Len(grid)
                                     /\ RowMentionsOrganization(grid[i + 1])}
         IN IF found = {} THEN 8
            ELSE CHOOSE i \in found : \A j \in found : i <= j

\* C12: clean_sheet takes row 2 as the header row of a sheet whose name
\* holds "2022" or "2023"; otherwise the first of the rows 0..19 whose text
\* holds "organization" in any case, and row 8 without raising when the
\* first 20 rows hold no such row, also on a sheet of fewer than 20 rows.
C12_HeaderRowLocation ==
    res.fn = "clean_sheet" =>
        /\ res.header.error = "none"
        /\ res.header.i = StatedHeader(workbook[1].name, Grid(workbook[1]))

\* C20: a worksheet all of whose rows are summary rows, or that has no data
\* row, does not make extraction fail: the cleaning function returns an
\* empty record set for it without raising.
C20_EmptySheetDoesNotFail ==
    (/\ res.fn \in {"clean_sheet", "clean_2016_2022_sheet"}
     /\ HasOrgColumn(workbook[1])
     /\ NonSummaryRows(workbook[1]) = << >>)
        => /\ res.error = "none"
           /\ pc = "main"
           /\ all_data = << << >> >>

\* C21: whenever the Total_Score column is located, at whatever index, the
\* Total_Score of every record is the to_number value of the cell of that
\* column.
C21_TotalScoreReadWhenLocated ==
    (/\ res.fn \in {"clean_sheet", "clean_2016_2022_sheet"}
     /\ res.error = "none"
     /\ res.col_idx.Total_Score.some
     /\ HasOrgColumn(workbook[1]))
        => LET kept == NonSummaryRows(workbook[1])
           IN /\ Len(all_data[1]) = Len(kept)
              /\ \A j \in DOMAIN kept :
                     all_data[1][j].Total_Score
                         = to_number(iloc(kept[j], res.col_idx.Total_Score.i))

\* C5: every emitted record has an Organization that is not empty after
\* trimming.
C5_OrganizationNonEmpty ==
    \A k \in DOMAIN all_data :
        \A j \in DOMAIN all_data[k] :
            Strip(all_data[k][j].Organization) # << >>

\* C6: every emitted record has an integer Year in 2015..2026.
C6_YearInRange ==
    \A k \in DOMAIN all_data :
        \A j \in DOMAIN all_data[k] :
            /\ all_data[k][j].Year.k = "num"
            /\ all_data[k][j].Year.frac = 0
            /\ DigitsToNat(all_data[k][j].Year.mant) >= 2015
            /\ DigitsToNat(all_data[k][j].Year.mant) <= 2026

-----------------------------------------------------------------------------
(* The cleaned table of the 2022-2026 script and the statistics per
   organization of hw3_visualizations.py *)

BetaInc == StrCell(<<"B","e","t","a"," ","I","n","c">>)

\* a row of an administration application
AdminRow ==
    <<StrCell(<<"A","d","m","i","n">>),
      StrCell(<<"H","o","u","s","i","n","g"," ","A","s","s","i","s","t","a","n","c","e">>),
      AcmeCorp,
      StrCell(<<"S","h","e","l","t","e","r"," ","B","u","i","l","d">>),
      StrCell(<<"$","1","2",",","5","0","0">>),
      StrCell(<<"8","8">>),
      StrCell(<<"$","1","0",",","0","0","0">>)>>

\* funded and unfunded applications of two organizations, and an
\* administration application
PipeRows ==
    {SheetRow(org, aw) : org \in {AcmeCorp, BetaInc}, aw \in AwardCells}
        \cup {AdminRow}

\* sheet names in workbook order, without repetition
SheetNameLists ==
    {<<a>> : a \in SheetNames}
        \cup {nl \in SheetNames \X SheetNames : nl[1] # nl[2]}

\* the lists of row lists, one per sheet, holding at most MaxRows rows in all
RowLists(n) ==
    {rl \in [1..n -> TokenSeqs(PipeRows, MaxRows)] :
        (IF n = 1 THEN Len(rl[1]) ELSE Len(rl[1]) + Len(rl[2])) <= MaxRows}

Workbooks ==
    {[i \in DOMAIN nl |->
         Titled([name |-> nl[i], cols |-> cs, rows |-> rl[i]], "2022_2026")] :
        <<nl, cs, rl>> \in
            UNION {{<<n, c, r>> : c \in Layouts, r \in RowLists(Len(n))} :
                       n \in SheetNameLists}}

\* the texts pd.read_csv reads as a missing value
NaTexts ==
    {<<>>,
     <<"n","a","n">>,
     <<"N","a","N">>,
     <<"N","A">>,
     <<"N","/","A">>,
     <<"n","/","a">>,
     <<"N","U","L","L">>,
     <<"n","u","l","l">>,
     <<"N","o","n","e">>,
     <<"<","N","A",">">>,
     <<"#","N","/","A">>,
     <<"#","N","A">>,
     <<"-","n","a","n">>,
     <<"-","N","a","N">>}

\* a text column written by to_csv and read back by read_csv: a missing
\* value is written as the empty text, and a text of NaTexts is read as a
\* missing value
csv_cell(c) ==
    IF isna(c) THEN NaNCell
    ELSE IF c.k = "str" /\ c.s \in NaTexts THEN NaNCell
    ELSE c

\* one record of the cleaned table read back from the CSV file; the float
\* columns are written in full precision and read back unchanged
csv_record(r) ==
    [r EXCEPT !.Organization = csv_cell(StrCell(r.Organization)),
              !.Project = csv_cell(r.Project),
              !.Type = csv_cell(r.Type),
              !.Priority = csv_cell(r.Priority),
              !.App_Type = csv_cell(StrCell(r.App_Type)),
              !.Priority_Category = csv_cell(StrCell(r.Priority_Category))]

\* df = pd.read_csv(DATA_FILE)
read_csv(file) == [k \in DOMAIN file |-> csv_record(file[k])]

\* pd.concat(all_data, ignore_index=True)
concat(frames) == Concat(frames)

\* combined[combined["App_Type"].isin(["Social Services",
\* "Construction/Development"])]
KeptAppTypes == {SocialServices, ConstructionDevelopment}

\* a filter that removes only the records classified Other
FilterAppTypes_not_other(combined) ==
    SelectSeq(combined, LAMBDA r : r.App_Type # Other)

FilterAppTypes(combined) ==
    SelectSeq(combined, LAMBDA r : r.App_Type \in KeptAppTypes)

\* the characters of the model's texts in code point order
CodePointOrder ==
    <<" ", "$", ",", "-", ".">> \o DigitChars \o UpperChars \o LowerChars

CodePoint(c) == CHOOSE i \in DOMAIN CodePointOrder : CodePointOrder[i] = c

\* a < b for two texts, as groupby orders its keys
TextLess(a, b) ==
    \E i \in 1..(Len(a) + 1) :
        /\ i <= Len(b)
        /\ \A j \in 1..(i - 1) : a[j] = b[j]
        /\ (i = Len(a) + 1 \/ CodePoint(a[i]) < CodePoint(b[i]))

\* .head(15)
HeadOrgs == 15

\* (Funded_Apps / Total_Apps * 100).round(1): division by zero gives inf, or
\* nan for 0 / 0; a tie of the rounding goes to the even digit
Funding_Rate(funded, total) ==
    IF total = 0 THEN (IF funded = 0 THEN NaN ELSE Inf(FALSE))
    ELSE LET q == (funded * 1000) \div total
             r == (funded * 1000) % total
             tenths == IF 2 * r > total THEN q + 1
                       ELSE IF 2 * r = total THEN q + (q % 2)
                       ELSE q
         IN Normalize(FALSE, NatToText(tenths), 1)

\* the rows of the table of one organization; groupby leaves out the rows
\* whose Organization is missing
RowsOf(df, org) == {k \in DOMAIN df : df[k].Organization = StrCell(org)}

\* 'Year': 'count' and 'Funding_Award': lambda x: x.notna().sum()
OrgRow(df, org) ==
    LET total == Cardinality({k \in RowsOf(df, org) : notna(df[k].Year)})
        funded == Cardinality({k \in RowsOf(df, org) :
                                   notna(df[k].Funding_Award)})
    IN [Organization |-> org,
        Total_Apps |-> total,
        Funded_Apps |-> funded,
        Funding_Rate |-> Funding_Rate(funded, total)]

\* sort_values('Total_Apps', ascending=False) on the groups in key order
OrgBefore(x, y) ==
    \/ x.Total_Apps > y.Total_Apps
    \/ x.Total_Apps = y.Total_Apps /\ TextLess(x.Organization, y.Organization)

RECURSIVE SortOrgRows(_)
SortOrgRows(S) ==
    IF S = {} THEN << >>
    ELSE LET m == CHOOSE x \in S : \A y \in S \ {x} : OrgBefore(x, y)
         IN <<m>> \o SortOrgRows(S \ {m})

\* org_stats of hw3_visualizations.py
org_stats(df) ==
    LET orgs == {df[k].Organization.s :
                     k \in {j \in DOMAIN df : ~isna(df[j].Organization)}}
        sorted == SortOrgRows({OrgRow(df, o) : o \in orgs})
    IN SubSeq(sorted, 1, IF Len(sorted) < HeadOrgs THEN Len(sorted)
                         ELSE HeadOrgs)

\* the DataFrame a bar or line plot is drawn from has a row: a group needs a
\* Year that is not missing
HasYear(df) == \E k \in DOMAIN df : notna(df[k].Year)

HasScoredYear(df) ==
    \E k \in DOMAIN df : notna(df[k].Year) /\ notna(df[k].Total_Score)

\* the column names of the DataFrame of each script, in the order of the
\* record keys and of the two columns the classifiers add
TableFields ==
    [f \in TableFiles |->
        IF f = OutputFile["2022_2026"]
        THEN <<"Year", "Organization", "Project", "Type", "Priority",
               "Funding_Request", "Funding_Award", "Total_Score",
               "Score_Impact", "Score_Principles", "Score_Capacity",
               "Score_Collab", "App_Type", "Priority_Category">>
        ELSE <<"Year", "Organization", "Project", "Type", "Priority",
               "Funding_Request", "Funding_Award", "Total_Score",
               "App_Type", "Priority_Category">>]

ColumnTexts ==
    [Year |-> <<"Y","e","a","r">>,
     Organization |-> <<"O","r","g","a","n","i","z","a","t","i","o","n">>,
     Project |-> <<"P","r","o","j","e","c","t">>,
     Type |-> <<"T","y","p","e">>,
     Priority |-> <<"P","r","i","o","r","i","t","y">>,
     Funding_Request |-> <<"F","u","n","d","i","n","g","_","R","e","q","u","e","s","t">>,
     Funding_Award |-> <<"F","u","n","d","i","n","g","_","A","w","a","r","d">>,
     Total_Score |-> <<"T","o","t","a","l","_","S","c","o","r","e">>,
     Score_Impact |-> <<"S","c","o","r","e","_","I","m","p","a","c","t">>,
     Score_Principles |-> <<"S","c","o","r","e","_","P","r","i","n","c","i","p","l","e","s">>,
     Score_Capacity |-> <<"S","c","o","r","e","_","C","a","p","a","c","i","t","y">>,
     Score_Collab |-> <<"S","c","o","r","e","_","C","o","l","l","a","b">>,
     App_Type |-> <<"A","p","p","_","T","y","p","e">>,
     Priority_Category |-> <<"P","r","i","o","r","i","t","y","_","C","a","t","e","g","o","r","y">>]

\* combined.to_csv(output_file, index=False): the file is created or
\* truncated, and holds the header line and the rows of combined
to_csv(f, combined) ==
    [exists |-> TRUE,
     columns |-> [i \in DOMAIN TableFields[f] |-> ColumnTexts[TableFields[f][i]]],
     rows |-> combined]

InitPipe ==
    /\ pc = "main"
    /\ arg = NoCell
    /\ res = NoResult
    /\ script = "2022_2026"
    /\ workbook \in Workbooks
    /\ all_data = << >>
    /\ table = NoFiles
    /\ report = << >>
    /\ runs = << << >> >>

\* a variant of WriteTable that opens the file for appending
WriteTable_append ==
    /\ pc = "main"
    /\ script = "2022_2026"
    /\ Len(all_data) = Len(workbook)
    /\ table' = [table EXCEPT ![OutputFile[script]] =
                     to_csv(OutputFile[script],
                            @.rows \o FilterAppTypes(concat(all_data)))]
    /\ pc' = "saved"
    /\ UNCHANGED <<arg, res, script, workbook, all_data, report, runs>>

\* a variant of WriteTable that saves the frames combined so far
WriteTable_eager ==
    /\ pc = "main"
    /\ script = "2022_2026"
    /\ Len(all_data) >= 1
    /\ table' = [table EXCEPT ![OutputFile[script]] =
                     to_csv(OutputFile[script],
                            FilterAppTypes(concat(all_data)))]
    /\ pc' = IF Len(all_data) = Len(workbook) THEN "saved" ELSE pc
    /\ UNCHANGED <<arg, res, script, workbook, all_data, report, runs>>

\* main() of hw3_data_cleaning.py after the last clean_sheet call: the
\* frames are concatenated, filtered by App_Type and saved
WriteTable ==
    /\ pc = "main"
    /\ script = "2022_2026"
    /\ Len(all_data) = Len(workbook)
    /\ table' = [table EXCEPT ![OutputFile[script]] =
                     to_csv(OutputFile[script],
                            FilterAppTypes(concat(all_data)))]
    /\ pc' = "saved"
    /\ UNCHANGED <<arg, res, script, workbook, all_data, report, runs>>

\* main() of hw3_stretch_goal_cleaning.py after the last
\* clean_2016_2022_sheet call
Write2016Table ==
    /\ pc = "main"
    /\ script = "2016_2022"
    /\ Len(all_data) = Len(workbook)
    /\ table' = [table EXCEPT ![OutputFile[script]] =
                     to_csv(OutputFile[script],
                            FilterAppTypes(concat(all_data)))]
    /\ pc' = "saved"
    /\ UNCHANGED <<arg, res, script, workbook, all_data, report, runs>>

\* DATA_FILE of hw3_visualizations.py and hw3_final_analysis.py
DATA_FILE == OutputFile["2022_2026"]

\* hw3_visualizations.py down to the statistics per organization: the bar
\* plot of the applications per year and category and the line plot of the
\* average scores raise TypeError("no numeric data to plot") on an empty
\* DataFrame
Visualize ==
    /\ pc = "saved"
    /\ LET df == read_csv(table[DATA_FILE].rows)
       IN IF HasYear(df) /\ HasScoredYear(df)
          THEN /\ report' = org_stats(df)
               /\ pc' = "visualized"
          ELSE /\ report' = report
               /\ pc' = "raised"
    /\ UNCHANGED <<arg, res, script, workbook, all_data, table, runs>>

NextPipe ==
    \/ CleanSheet
    \/ WriteTable
    \/ Visualize

SpecPipe == InitPipe /\ [][NextPipe]_vars

\* the records of the table read back that belong to one organization
Submitted(org) ==
    {k \in DOMAIN table[DATA_FILE].rows :
        csv_record(table[DATA_FILE].rows[k]).Organization = StrCell(org)}

\* C4: a record is counted in a funded aggregate if and only if its
\* Funding_Award is present; a record whose Award cell was "" is left out of
\* the funded count of its organization and is still counted in the
\* submitted count of its organization.
C4_FundedIffAwardPresent ==
    pc = "visualized" =>
        \A i \in DOMAIN report :
            /\ report[i].Funded_Apps
                   = Cardinality({k \in Submitted(report[i].Organization) :
                                      notna(table[DATA_FILE].rows[k].Funding_Award)})
            /\ report[i].Total_Apps
                   = Cardinality(Submitted(report[i].Organization))

\* C16: a funding rate is the absence marker, never a number and never an
\* error, when the submitted count it is divided by is 0.
C16_ZeroSubmittedRateIsAbsent ==
    pc = "visualized" =>
        \A i \in DOMAIN report :
            report[i].Total_Apps = 0 => report[i].Funding_Rate = NaN

-----------------------------------------------------------------------------
(* Column resolution on header rows *)

MaxFieldCols == 2

\* header cells: field names in several spellings, names that hold a keyword
\* of another field, and an empty cell
FieldHeaders ==
    {StrCell(<<"T","y","p","e">>),
     StrCell(<<"P","R","I","O","R","I","T","Y">>),
     StrCell(<<"P","r","i","o","r","i","t","y"," ","I","m","p","a","c","t">>),
     StrCell(<<"O","r","g","a","n","i","z","a","t","i","o","n">>),
     StrCell(<<"P","r","o","g","r","a","m">>),
     StrCell(<<"R","e","q","u","e","s","t">>),
     StrCell(<<"A","w","a","r","d"," ","D","a","t","e">>),
     StrCell(<<"C","o","l","l","a","b","o","r","a","t","i","o","n">>),
     StrCell(<<"G","u","i","d","i","n","g"," ","P","r","i","n","c","i","p","l","e","s">>),
     StrCell(<<"A","v","g"," ","S","c","o","r","e">>),
     NaNCell}

\* header cells that declare point values, from none to five of them
PointHeaderLists ==
    {<<>>,
     <<StrCell(<<"3","0"," ","p","t","s">>), StrCell(<<"3","0"," ","p","t","s">>), StrCell(<<"2","5"," ","p","t","s">>)>>,
     <<StrCell(<<"3","0"," ","p","t","s">>), StrCell(<<"3","0"," ","p","t","s">>), StrCell(<<"2","5"," ","p","t","s">>), StrCell(<<"1","5"," ","p","t","s">>)>>,
     <<StrCell(<<"1","0"," ","p","t","s">>), StrCell(<<"3","0"," ","p","t","s">>), StrCell(<<"2","5"," ","p","t","s">>), StrCell(<<"1","5"," ","p","t","s">>)>>,
     <<StrCell(<<"3","0"," ","p","t","s">>), StrCell(<<"2","5"," ","p","t","s">>), StrCell(<<"2","5"," ","p","t","s">>), StrCell(<<"1","5"," ","p","t","s">>)>>,
     <<StrCell(<<"3","0"," ","p","t","s">>), StrCell(<<"3","0"," ","p","t","s">>), StrCell(<<"1","5"," ","p","t","s">>), StrCell(<<"1","5"," ","p","t","s">>)>>,
     <<StrCell(<<"3","0"," ","p","t","s">>), StrCell(<<"3","0"," ","p","t","s">>), StrCell(<<"2","5"," ","p","t","s">>), StrCell(<<"3","0"," ","p","t","s">>)>>,
     <<StrCell(<<"3","0"," ","p","t","s">>), StrCell(<<"3","0"," ","p","t","s">>), StrCell(<<"2","5"," ","p","t","s">>), StrCell(<<"1","5"," ","p","t","s">>), StrCell(<<"1","0"," ","p","t","s">>)>>}

HeaderRows ==
    {f \o p : f \in TokenSeqs(FieldHeaders, MaxFieldCols),
              p \in PointHeaderLists} \ {<< >>}

\* df.columns of the sheet whose header row is hdr
Columns(hdr) == read_excel(<<hdr>>, 0).cols

InitCols ==
    /\ pc = "call_col_idx"
    /\ arg \in {[name |-> nm, header |-> hdr] :
                   nm \in SheetNames, hdr \in HeaderRows}
    /\ res = NoResult
    /\ script = "none"
    /\ workbook = << >>
    /\ all_data = << >>
    /\ table = NoFiles
    /\ report = << >>
    /\ runs = << << >> >>

\* Step 3 of clean_sheet and the col_idx of clean_2016_2022_sheet
LocateColumns ==
    /\ pc = "call_col_idx"
    /\ \E cols \in {Columns(arg.header)} :
           res' = [fn |-> "col_idx",
                   col_idx |-> col_idx(cols),
                   stretch_col_idx |-> stretch_col_idx(cols)]
    /\ pc' = "call_score_breakdown"
    /\ UNCHANGED <<arg, script, workbook, all_data, table, report, runs>>

\* Step 4 of clean_sheet
LocateScoreBreakdown ==
    /\ pc = "call_score_breakdown"
    /\ \E cols \in {Columns(arg.header)} :
           res' = [res EXCEPT !.fn = "score_breakdown"]
                      @@ [method1 |-> Method1(cols),
                          score_breakdown |-> score_breakdown(arg.name, cols)]
    /\ pc' = "resolved"
    /\ UNCHANGED <<arg, script, workbook, all_data, table, report, runs>>

NextCols ==
    \/ LocateColumns
    \/ LocateScoreBreakdown

SpecCols == InitCols /\ [][NextCols]_vars

\* the default position of a field
FieldDefaults == [Type |-> 1, Priority |-> 2, Org |-> 3, Project |-> 4, Request |-> 5]

\* header cell i names field f: it holds a keyword of the field in any case,
\* and for Priority it does not hold "impact"
NamesField(cols, i, f) ==
    /\ \E w \in FieldKeywords[f] : Contains(w, Lower(str(cols[i])))
    /\ f = "Priority" => ~Contains(kw.impact, Lower(str(cols[i])))

\* the 0-based position stated for field f: the first header cell from the
\* left that names it, else its default
StatedColumn(cols, f) ==
    IF \E i \in DOMAIN cols : NamesField(cols, i, f)
    THEN (CHOOSE i \in DOMAIN cols :
              /\ NamesField(cols, i, f)
              /\ \A j \in 1..(i - 1) : ~NamesField(cols, j, f)) - 1
    ELSE FieldDefaults[f]

\* C13: in both scripts the index of Type, Priority, Organization, Project
\* and Request is that of the first header cell holding the field's keyword
\* in any case (Priority: and not "impact"; Project: "project" or
\* "program"), else the default 1, 2, 3, 4, 5; the Award index is that of
\* the last column whatever the header texts are.
C13_ColumnLocation ==
    res.fn \in {"col_idx", "score_breakdown"} =>
        \A ci \in {res.col_idx, res.stretch_col_idx} :
            /\ \A f \in DOMAIN FieldDefaults :
                   ci[f] = StatedColumn(Columns(arg.header), f)
            /\ ci.Award = Len(arg.header) - 1

\* C13 witness: the columns of a header row that starts with "Award Date",
\* ends with another column and has no Type column have been located
C13_Witness ==
    /\ res.fn = "col_idx"
    /\ Len(arg.header) >= 3
    /\ arg.header[1] = StrCell(<<"A","w","a","r","d"," ","D","a","t","e">>)
    /\ arg.header[2] = StrCell(<<"P","r","i","o","r","i","t","y"," ","I","m","p","a","c","t">>)
    /\ res.col_idx.Award = Len(arg.header) - 1
    /\ res.col_idx.Priority = 2
    /\ res.col_idx.Type = 1
    /\ res.stretch_col_idx.Award = Len(arg.header) - 1

\* the 0-based positions of the header cells that hold "pt" in any case
PointColumns(cols) ==
    {i \in 0..(Len(cols) - 1) : Contains(kw.pt, Lower(str(cols[i + 1])))}

\* the k-th of them from the left
KthPointColumn(cols, k) ==
    CHOOSE i \in PointColumns(cols) :
        Cardinality({j \in PointColumns(cols) : j < i}) = k - 1

\* the canonical order of the sub-components and their point values
SlotOrder == <<"Score_Impact", "Score_Principles", "Score_Capacity", "Score_Collab">>

SlotPoints == <<kw.p30, kw.p30, kw.p25, kw.p15>>

\* C14: on a sheet whose name holds "2022" or "2023", with at least four
\* header cells holding "pt" slot k of Impact, Principles, Capacity,
\* Collaboration is the index of the k-th such column if that header holds
\* its point value 30, 30, 25, 15 and is absent otherwise, whatever the
\* keyword matching found; with fewer than four the slots keep the result of
\* the keyword matching.
C14_PointValueStrategy ==
    (/\ res.fn = "score_breakdown"
     /\ Contains(kw.y2022, arg.name) \/ Contains(kw.y2023, arg.name))
        => LET cols == Columns(arg.header)
           IN \A k \in 1..4 :
                  res.score_breakdown[SlotOrder[k]] =
                      IF Cardinality(PointColumns(cols)) >= 4
                      THEN IF Contains(SlotPoints[k],
                                       str(cols[KthPointColumn(cols, k) + 1]))
                           THEN Some(KthPointColumn(cols, k))
                           ELSE None
                      ELSE KeywordSlot(cols, SlotOrder[k])

\* C14 witness: a 2022-23 header row with a "Priority Impact" column, a
\* "Collaboration" column and the point columns 30, 30, 25, 30 has been
\* resolved: the first slot is the first point column, the last is absent
C14_Witness ==
    /\ res.fn = "score_breakdown"
    /\ arg.name = <<"2","0","2","2","-","2","3">>
    /\ Len(arg.header) = 6
    /\ arg.header[1] = StrCell(<<"P","r","i","o","r","i","t","y"," ","I","m","p","a","c","t">>)
    /\ arg.header[2] = StrCell(<<"C","o","l","l","a","b","o","r","a","t","i","o","n">>)
    /\ res.score_breakdown.Score_Impact = Some(2)
    /\ res.score_breakdown.Score_Principles = Some(3)
    /\ res.score_breakdown.Score_Collab = None

\* the keywords of each sub-component
SlotKeywords ==
    [Score_Impact |-> <<kw.priority, kw.impact>>,
     Score_Principles |-> <<kw.guiding, kw.principle>>,
     Score_Capacity |-> <<kw.capacity, kw.deliver>>,
     Score_Collab |-> <<kw.collaboration, kw.partnership>>]

\* the lower-cased header text c holds the keywords of slot s: both of them,
\* or for Score_Collab either of them unless collab_both
HoldsKeywords(c, s, collab_both) ==
    IF s = "Score_Collab" /\ ~collab_both
    THEN Contains(SlotKeywords[s][1], c) \/ Contains(SlotKeywords[s][2], c)
    ELSE Contains(SlotKeywords[s][1], c) /\ Contains(SlotKeywords[s][2], c)

\* the keyword strategy as stated, on the slots Method 1 has left
KeywordStrategyStated(collab_both) ==
    res.fn = "score_breakdown" =>
        LET cols == Columns(arg.header)
            name(i) == Lower(str(cols[i + 1]))
            idx == 0..(Len(cols) - 1)
            slots == DOMAIN SlotKeywords
        IN /\ \A s \in slots :
                  res.method1[s].some =>
                      HoldsKeywords(name(res.method1[s].i), s, collab_both)
           /\ \A i \in idx :
                  Cardinality({s \in slots : res.method1[s] = Some(i)}) <= 1
           /\ \A s \in slots :
                  (\A i \in idx : ~HoldsKeywords(name(i), s, collab_both))
                      => res.method1[s] = None
           /\ (/\ \E i \in idx : /\ Contains(kw.priority, name(i))
                                  /\ ~Contains(kw.impact, name(i))
               /\ res.method1.Score_Impact.some)
                  => res.col_idx.Priority # res.method1.Score_Impact.i

\* C24: the keyword strategy of clean_sheet, run on every sheet before the
\* point-value strategy, assigns a header to Score_Impact only if it holds
\* "priority" and "impact", to Score_Principles only if "guiding" and
\* "principle", to Score_Capacity only if "capacity" and "deliver", to
\* Score_Collab only if both "collaboration" and "partnership"; a header
\* takes at most one slot, a slot no header matches is None, and a
\* keyword-matched Priority column is never the Score_Impact column.
C24_KeywordStrategy == KeywordStrategyStated(TRUE)

\* C24 as the code has it: a header is assigned to Score_Collab if it holds
\* "collaboration" or "partnership"; the rest as stated
C24_KeywordStrategy_Amended == KeywordStrategyStated(FALSE)

\* C24 witness: a 2022-23 header row "Priority Impact", "Collaboration" with
\* the point columns 30, 30, 25, 15 has been resolved: Method 1 found the
\* two named columns before Method 2 replaced them
C24_Witness ==
    /\ res.fn = "score_breakdown"
    /\ arg.name = <<"2","0","2","2","-","2","3">>
    /\ Len(arg.header) = 6
    /\ arg.header[1] = StrCell(<<"P","r","i","o","r","i","t","y"," ","I","m","p","a","c","t">>)
    /\ arg.header[2] = StrCell(<<"C","o","l","l","a","b","o","r","a","t","i","o","n">>)
    /\ res.method1.Score_Impact = Some(0)
    /\ res.method1.Score_Collab = Some(1)
    /\ res.method1.Score_Principles = None
    /\ res.score_breakdown.Score_Impact = Some(2)

-----------------------------------------------------------------------------
(* An extraction script run again on the same workbook *)

MaxRuns == 2

\* a row of a construction application
ConstructionRow ==
    <<StrCell(<<"C","o","n","s","t","r","u","c","t","i","o","n">>),
      StrCell(<<"N","e","i","g","h","b","o","r","h","o","o","d">>),
      BetaInc,
      StrCell(<<"S","h","e","l","t","e","r"," ","B","u","i","l","d">>),
      StrCell(<<"$","1","2",",","5","0","0">>),
      StrCell(<<"8","8">>),
      NaNCell>>

\* a funded application, a construction application and an administration
\* application
RerunRows == {SheetRow(AcmeCorp, StrCell(<<"$","1","0",",","0","0","0">>)),
              ConstructionRow,
              AdminRow}

RerunNameLists ==
    {<<a>> : a \in SheetNames}
        \cup {<<<<"2","0","2","2","-","2","3">>, <<"F","Y","2","0","3","1">>>>,
              <<<<"A","w","a","r","d","s">>, <<"2","0","2","2","-","2","3">>>>}

\* the lists of row lists, one per sheet, holding at most MaxRows rows in all
RerunRowLists(n) ==
    {rl \in [1..n -> TokenSeqs(RerunRows, MaxRows)] :
        (IF n = 1 THEN Len(rl[1]) ELSE Len(rl[1]) + Len(rl[2])) <= MaxRows}

\* workbooks of one or two sheets, each sheet in a layout of its own
RerunWorkbooks(scr) ==
    UNION {{[i \in DOMAIN nl |->
                Titled([name |-> nl[i], cols |-> cl[i], rows |-> rl[i]], scr)] :
               cl \in [DOMAIN nl -> Layouts], rl \in RerunRowLists(Len(nl))} :
           nl \in RerunNameLists}

InitRerun ==
    /\ pc = "main"
    /\ arg = NoCell
    /\ res = NoResult
    /\ script \in Scripts
    /\ workbook \in RerunWorkbooks(script)
    /\ all_data = << >>
    /\ table = NoFiles
    /\ report = << >>
    /\ runs = << << >> >>

\* the script is started again: main() begins with an empty all_data
Rerun ==
    /\ pc \in {"saved", "raised"}
    /\ Len(runs) < MaxRuns
    /\ pc' = "main"
    /\ res' = NoResult
    /\ all_data' = << >>
    /\ runs' = Append(runs, << >>)
    /\ UNCHANGED <<arg, script, workbook, table, report>>

NextRerun ==
    \/ CleanSheet
    \/ Clean2016Sheet
    \/ WriteTable
    \/ Write2016Table
    \/ Rerun

SpecRerun == InitRerun /\ [][NextRerun]_vars

\* what a script locates on a sheet, from the sheet alone
Located(scr, sh) ==
    IF scr = "2022_2026" THEN Resolution(sh) ELSE StretchResolution(sh)

SingleRun(scr, wb) ==
    [k \in DOMAIN wb |->
        (IF scr = "2022_2026" THEN clean_sheet(wb[k])
         ELSE clean_2016_2022_sheet(wb[k])).rows]

\* C19: after any number of runs of main() on the same workbook the table
\* holds exactly the rows of a single run.
C19_RerunOverwritesTable ==
    pc = "saved" =>
        /\ table[OutputFile[script]]
               = to_csv(OutputFile[script],
                        FilterAppTypes(concat(SingleRun(script, workbook))))
        /\ \A f \in TableFiles \ {OutputFile[script]} : table[f] = NoFile

\* the second run has saved a table that holds a row
C19_Witness ==
    /\ pc = "saved"
    /\ Len(runs) = 2
    /\ table[OutputFile[script]].rows # << >>

\* the rows j of sheet k that main() keeps
KeptRows(k) ==
    {j \in DOMAIN all_data[k] :
        all_data[k][j].App_Type \in {SocialServices, ConstructionDevelopment}}

\* the place in the table of row j of sheet k: after the kept rows of the
\* sheets before k and the kept rows of sheet k before j
PlaceInTable(k, j) ==
    LET RECURSIVE earlier(_)
        earlier(n) == IF n = 0 THEN 0
                      ELSE Cardinality(KeptRows(n)) + earlier(n - 1)
    IN earlier(k - 1) + Cardinality({i \in KeptRows(k) : i <= j})

\* C26: every row of the table written by either main() has App_Type
\* "Social Services" or "Construction/Development"; the records classified
\* Admin, Planning or Other are removed, and every record of the two types
\* of any sheet is kept, in sheet order then row order.
C26_OnlyKeptTypesWritten ==
    pc = "saved" =>
        LET rows == table[OutputFile[script]].rows
        IN /\ \A i \in DOMAIN rows :
                  rows[i].App_Type \in {SocialServices, ConstructionDevelopment}
           /\ Len(all_data) = Len(workbook)
           /\ Len(rows) = PlaceInTable(Len(all_data), 0) + Cardinality(KeptRows(Len(all_data)))
           /\ \A k \in DOMAIN all_data :
                  \A j \in KeptRows(k) : rows[PlaceInTable(k, j)] = all_data[k][j]

\* C26 witness: a workbook of two sheets, the first holding an Admin
\* application and the second a Construction application, has been
\* saved: the table holds the second alone
C26_Witness ==
    /\ pc = "saved"
    /\ Len(all_data) = 2
    /\ Len(all_data[1]) = 1
    /\ all_data[1][1].App_Type = Admin
    /\ Len(all_data[2]) = 1
    /\ table[OutputFile[script]].rows = <<all_data[2][1]>>
    /\ all_data[2][1].App_Type = ConstructionDevelopment

-----------------------------------------------------------------------------
(* An extraction script run where an earlier run has left its table *)

\* the workbook of the earlier run: one sheet with one funded application
EarlierWorkbook(scr) ==
    <<Titled([name |-> <<"A","w","a","r","d","s">>,
              cols |-> ScenarioCols,
              rows |-> <<SheetRow(BetaInc, StrCell(<<"$","1","0",",","0","0","0">>))>>],
             scr)>>

\* the table the earlier run of the script has saved
EarlierTable(scr) ==
    to_csv(OutputFile[scr], FilterAppTypes(concat(SingleRun(scr, EarlierWorkbook(scr)))))

InitEarlier ==
    /\ pc = "main"
    /\ arg = NoCell
    /\ res = NoResult
    /\ script \in Scripts
    /\ workbook \in RerunWorkbooks(script)
    /\ all_data = << >>
    /\ table = [NoFiles EXCEPT ![OutputFile[script]] = EarlierTable(script)]
    /\ report = << >>
    /\ runs = << << >> >>

NextEarlier ==
    \/ CleanSheet
    \/ Clean2016Sheet
    \/ WriteTable
    \/ Write2016Table

SpecEarlier == InitEarlier /\ [][NextEarlier]_vars

\* C29: main() writes the table only after every worksheet has been
\* processed and combined; if a worksheet fails the run ends without
\* writing, and the table an earlier run has left is unchanged, never
\* replaced by a table of some of the sheets.
C29_WriteOnlyAfterEverySheet ==
    /\ pc \in {"main", "raised"} =>
           table = [NoFiles EXCEPT ![OutputFile[script]] = EarlierTable(script)]
    /\ pc = "saved" =>
           /\ Len(all_data) = Len(workbook)
           /\ table[OutputFile[script]].rows
                  = FilterAppTypes(concat(SingleRun(script, workbook)))

\* C29 witness: the first sheet has been processed, the second has failed,
\* and the table of the earlier run is still there
C29_Witness ==
    /\ pc = "raised"
    /\ Len(workbook) = 2
    /\ Len(all_data) = 1
    /\ all_data[1] # << >>
    /\ table[OutputFile[script]] = EarlierTable(script)
    /\ EarlierTable(script).rows # << >>

-----------------------------------------------------------------------------
(* The reporting scripts from their start to the loaded table *)

Reports == {"hw3_final_analysis", "hw3_visualizations", "hw3_stretch_goal_viz"}

\* the tables a reporting script reads, in the order it reads them
DataFiles ==
    [s \in Reports |->
        IF s = "hw3_stretch_goal_viz"
        THEN <<OutputFile["2016_2022"], OutputFile["2022_2026"]>>
        ELSE <<DATA_FILE>>]

\* the keywords of the column detection of hw3_final_analysis.py
col_kw ==
    [year |-> <<"y","e","a","r">>,
     organization |-> <<"o","r","g","a","n","i","z","a","t","i","o","n">>,
     request |-> <<"r","e","q","u","e","s","t">>,
     award |-> <<"a","w","a","r","d">>,
     total |-> <<"t","o","t","a","l">>,
     score |-> <<"s","c","o","r","e">>,
     app |-> <<"a","p","p">>,
     type |-> <<"t","y","p","e">>,
     priority |-> <<"p","r","i","o","r","i","t","y">>,
     category |-> <<"c","a","t","e","g","o","r","y">>,
     impact |-> <<"i","m","p","a","c","t">>,
     principle |-> <<"p","r","i","n","c","i","p","l","e">>,
     capacity |-> <<"c","a","p","a","c","i","t","y">>,
     collab |-> <<"c","o","l","l","a","b">>]

\* the names the rename and the aggregates of hw3_final_analysis.py use
Request == <<"R","e","q","u","e","s","t">>

Award == <<"A","w","a","r","d">>

\* the key of col_map a column name is stored under, "none" for a column no
\* branch of the chain takes
DetectedKey(col) ==
    LET col_lower == Lower(col)
    IN IF Contains(col_kw.year, col_lower) THEN "Year"
       ELSE IF Contains(col_kw.organization, col_lower) THEN "Organization"
       ELSE IF Contains(col_kw.request, col_lower) \/ col = Request
         THEN "Request"
       ELSE IF Contains(col_kw.award, col_lower) \/ col = Award THEN "Award"
       ELSE IF \/ Contains(col_kw.total, col_lower)
                    /\ Contains(col_kw.score, col_lower)
               \/ col = ColumnTexts.Total_Score
         THEN "Total_Score"
       ELSE IF \/ Contains(col_kw.app, col_lower)
                    /\ Contains(col_kw.type, col_lower)
               \/ col = ColumnTexts.App_Type
         THEN "App_Type"
       ELSE IF \/ Contains(col_kw.priority, col_lower)
                    /\ Contains(col_kw.category, col_lower)
               \/ col = ColumnTexts.Priority_Category
         THEN "Priority_Category"
       ELSE IF \/ Contains(col_kw.impact, col_lower)
                    /\ Contains(col_kw.score, col_lower)
               \/ col = ColumnTexts.Score_Impact
         THEN "Score_Impact"
       ELSE IF \/ Contains(col_kw.principle, col_lower)
                    /\ Contains(col_kw.score, col_lower)
               \/ col = ColumnTexts.Score_Principles
         THEN "Score_Principles"
       ELSE IF \/ Contains(col_kw.capacity, col_lower)
                    /\ Contains(col_kw.score, col_lower)
               \/ col = ColumnTexts.Score_Capacity
         THEN "Score_Capacity"
       ELSE IF \/ Contains(col_kw.collab, col_lower)
                    /\ Contains(col_kw.score, col_lower)
               \/ col = ColumnTexts.Score_Collab
         THEN "Score_Collab"
       ELSE "none"

ColMapKeys ==
    {"Year", "Organization", "Request", "Award", "Total_Score", "App_Type",
     "Priority_Category", "Score_Impact", "Score_Principles",
     "Score_Capacity", "Score_Collab"}

\* col_map: each key holds the last column the chain stored under it
col_map(columns) ==
    [key \in ColMapKeys |->
        LET hits == {i \in DOMAIN columns : DetectedKey(columns[i]) = key}
        IN IF hits = {} THEN [some |-> FALSE, name |-> << >>]
           ELSE [some |-> TRUE,
                 name |-> columns[CHOOSE i \in hits : \A j \in hits : j <= i]]]

\* col_map.get(key, default)
Get(cm, key, default) == IF cm[key].some THEN cm[key].name ELSE default

\* df.rename(columns={...}) with the five entries of the script
rename(columns, cm) ==
    [i \in DOMAIN columns |->
        IF columns[i] = Get(cm, "Request", Request) THEN Request
        ELSE IF columns[i] = Get(cm, "Award", Award) THEN Award
        ELSE IF columns[i] = Get(cm, "Total_Score", ColumnTexts.Total_Score)
          THEN ColumnTexts.Total_Score
        ELSE IF columns[i] = Get(cm, "App_Type", ColumnTexts.App_Type)
          THEN ColumnTexts.App_Type
        ELSE IF columns[i] = Get(cm, "Priority_Category",
                                 ColumnTexts.Priority_Category)
          THEN ColumnTexts.Priority_Category
        ELSE columns[i]]

\* the column names the aggregates of hw3_final_analysis.py index df with
AggregateColumns ==
    {ColumnTexts.Year, ColumnTexts.Organization, Request, Award,
     ColumnTexts.Total_Score, ColumnTexts.App_Type,
     ColumnTexts.Priority_Category}

\* score_cols of page 9
score_cols ==
    {ColumnTexts.Score_Impact, ColumnTexts.Score_Principles,
     ColumnTexts.Score_Capacity, ColumnTexts.Score_Collab}

\* has_breakdown = all(col in df.columns for col in score_cols)
has_breakdown(columns) == score_cols \subseteq Range(columns)

\* what an uncaught FileNotFoundError of pd.read_csv shows
NoSuchFile == "FileNotFoundError: [Errno 2] No such file or directory"

\* what hw3_final_analysis.py prints before sys.exit(1)
NoCleanedData == "ERROR: No cleaned data file found!"

RunCleaningFirst == "Please run hw3_data_cleaning.py first"

\* the first table of a reporting script that does not exist, 0 when all exist
FirstMissing(files, tbl) ==
    IF \A i \in DOMAIN files : tbl[files[i]].exists THEN 0
    ELSE CHOOSE i \in DOMAIN files :
             /\ ~tbl[files[i]].exists
             /\ \A j \in 1..(i - 1) : tbl[files[j]].exists

\* hw3_final_analysis.py from its configuration to years_labels
StartFinalAnalysis ==
    /\ pc = "report"
    /\ script = "hw3_final_analysis"
    /\ IF ~table[DATA_FILE].exists
       THEN /\ res' = [fn |-> script, error |-> "SystemExit",
                       at |-> "sys.exit(1)",
                       message |-> {NoCleanedData, RunCleaningFirst},
                       dirs |-> {}, assets |-> {}]
            /\ pc' = "exited"
       ELSE \E cm \in {col_map(table[DATA_FILE].columns)} :
            \E columns \in {rename(table[DATA_FILE].columns, cm)} :
            LET df == read_csv(table[DATA_FILE].rows)
                outcome ==
                    IF ColumnTexts.Year \notin Range(columns)
                    THEN [error |-> "KeyError", at |-> "df['Year']"]
                    ELSE IF ColumnTexts.App_Type \notin Range(columns)
                    THEN [error |-> "KeyError", at |-> "df['App_Type']"]
                    ELSE IF \E k \in DOMAIN df : ~notna(df[k].Year)
                    THEN [error |-> "ValueError", at |-> "int(y)"]
                    ELSE [error |-> "none", at |-> "none"]
            IN /\ res' = [fn |-> script, error |-> outcome.error,
                          at |-> outcome.at, message |-> {},
                          dirs |-> {"hw3_output/report_assets/charts",
                                    "hw3_output/report_assets/tables"},
                          assets |-> {},
                          col_map |-> cm,
                          columns |-> columns,
                          unreadable |-> AggregateColumns \ Range(columns),
                          has_breakdown |-> has_breakdown(columns)]
               /\ pc' = IF outcome.error = "none" THEN "loaded" ELSE "raised"
    /\ UNCHANGED <<arg, script, workbook, all_data, table, report, runs>>

\* hw3_visualizations.py from its configuration to the overview it prints
StartVisualizations ==
    /\ pc = "report"
    /\ script = "hw3_visualizations"
    /\ LET columns == table[DATA_FILE].columns
           outcome ==
               IF ~table[DATA_FILE].exists
               THEN [error |-> "FileNotFoundError", at |-> "pd.read_csv",
                     message |-> {NoSuchFile}]
               ELSE IF ColumnTexts.Year \notin Range(columns)
               THEN [error |-> "KeyError", at |-> "df['Year']",
                     message |-> {}]
               ELSE IF ColumnTexts.App_Type \notin Range(columns)
               THEN [error |-> "KeyError", at |-> "df['App_Type']",
                     message |-> {}]
               ELSE [error |-> "none", at |-> "none", message |-> {}]
       IN /\ res' = [fn |-> script, error |-> outcome.error,
                     at |-> outcome.at, message |-> outcome.message,
                     dirs |-> {"hw3_output/figures"}, assets |-> {}]
          /\ pc' = IF outcome.error = "none" THEN "loaded" ELSE "raised"
    /\ UNCHANGED <<arg, script, workbook, all_data, table, report, runs>>

\* hw3_stretch_goal_viz.py from its configuration to the overview it prints;
\* the concatenated frame has the columns of both tables
StartStretchViz ==
    /\ pc = "report"
    /\ script = "hw3_stretch_goal_viz"
    /\ LET files == DataFiles[script]
           columns == UNION {Range(table[files[i]].columns) :
                                 i \in DOMAIN files}
           outcome ==
               IF FirstMissing(files, table) # 0
               THEN [error |-> "FileNotFoundError", at |-> "pd.read_csv",
                     message |-> {NoSuchFile}]
               ELSE IF ColumnTexts.App_Type \notin columns
               THEN [error |-> "KeyError", at |-> "df_all['App_Type']",
                     message |-> {}]
               ELSE IF ColumnTexts.Year \notin columns
               THEN [error |-> "KeyError", at |-> "df_all['Year']",
                     message |-> {}]
               ELSE [error |-> "none", at |-> "none", message |-> {}]
       IN /\ res' = [fn |-> script, error |-> outcome.error,
                     at |-> outcome.at, message |-> outcome.message,
                     dirs |-> {"hw3_output/figures_stretch_goal"},
                     assets |-> {}]
          /\ pc' = IF outcome.error = "none" THEN "loaded" ELSE "raised"
    /\ UNCHANGED <<arg, script, workbook, all_data, table, report, runs>>

\* other spellings of a column name: lower case, upper case, with spaces
Spellings(name) ==
    {Lower(name), Upper(name),
     [i \in DOMAIN name |-> IF name[i] = "_" THEN " " ELSE LowerChar(name[i])]}
        \ {name}

\* the spellings "impact_score", ... of the columns of the score breakdown
ScoreSpellings ==
    [Score_Impact |-> {<<"i","m","p","a","c","t","_","s","c","o","r","e">>},
     Score_Principles |-> {<<"p","r","i","n","c","i","p","l","e","s","_","s","c","o","r","e">>},
     Score_Capacity |-> {<<"c","a","p","a","c","i","t","y","_","s","c","o","r","e">>},
     Score_Collab |-> {<<"c","o","l","l","a","b","_","s","c","o","r","e">>}]

\* the header line of a table: as to_csv writes it, or with one column in
\* another spelling
HeaderLines(f) ==
    LET fields == TableFields[f]
        written == [i \in DOMAIN fields |-> ColumnTexts[fields[i]]]
    IN {written}
        \cup UNION {{[written EXCEPT ![i] = v] :
                        v \in Spellings(written[i])
                              \cup (IF fields[i] \in DOMAIN ScoreSpellings
                                    THEN ScoreSpellings[fields[i]] ELSE {})} :
                    i \in DOMAIN fields}

\* the rows main() saves from a workbook of one sheet holding one funded
\* application
SavedRows(scr) ==
    {FilterAppTypes(concat(SingleRun(scr,
         <<Titled([name |-> nm, cols |-> AvgScoreCols,
                   rows |-> <<SheetRow(AcmeCorp,
                                       StrCell(<<"$","1","0",",","0","0","0">>))>>],
                  scr)>>))) :
        nm \in SheetNames}

\* the output directory: each table is missing, or was saved by its script,
\* and the 2022-2026 table may have one column in another spelling
ReportTables ==
    {[f \in TableFiles |-> IF f = DATA_FILE THEN new ELSE old] :
        new \in {NoFile}
                  \cup {[exists |-> TRUE, columns |-> h, rows |-> r] :
                           h \in HeaderLines(DATA_FILE),
                           r \in SavedRows("2022_2026")},
        old \in {NoFile}
                  \cup {to_csv(OutputFile["2016_2022"], r) :
                           r \in SavedRows("2016_2022")}}

InitReport ==
    /\ pc = "report"
    /\ arg = NoCell
    /\ res = NoResult
    /\ script \in Reports
    /\ workbook = << >>
    /\ all_data = << >>
    /\ table \in ReportTables
    /\ report = << >>
    /\ runs = << << >> >>

NextReport ==
    \/ StartFinalAnalysis
    \/ StartVisualizations
    \/ StartStretchViz

SpecReport == InitReport /\ [][NextReport]_vars

\* C15: a reporting script whose table does not exist ends with a fatal
\* error shown to the operator that tells to run the extraction first, and
\* produces no chart and no table.
C15_MissingTableIsReported ==
    (res.fn \in Reports /\ FirstMissing(DataFiles[res.fn], table) # 0)
        => /\ res.error # "none"
           /\ RunCleaningFirst \in res.message
           /\ res.assets = {}

\* the semantic fields of hw3_final_analysis.py all have a column, in some
\* spelling
HasEveryField(columns) ==
    ColMapKeys \subseteq {DetectedKey(columns[i]) : i \in DOMAIN columns}

\* C17: hw3_final_analysis.py finds each semantic field under a name that
\* differs in case or holds the field name as a substring, and the
\* aggregates read the column found: no column is missing for them and the
\* score breakdown is seen.
C17_ColumnVariantsTolerated ==
    (/\ res.fn = "hw3_final_analysis"
     /\ table[DATA_FILE].exists
     /\ HasEveryField(table[DATA_FILE].columns))
        => /\ res.error # "KeyError"
           /\ res.unreadable = {}
           /\ res.has_breakdown

-----------------------------------------------------------------------------
(* hw3_final_analysis.py: the priority tables of page 5 and the
   distributions of pages 6 and 8, on the frame it loaded *)

\* a record of the normalized table
TableRecord(app_type, priority, org, year, award, request, score) ==
    [Year |-> Num(year),
     Organization |-> org.s,
     Project |-> StrCell(<<"S","h","e","l","t","e","r"," ","B","u","i","l","d">>),
     Type |-> StrCell(app_type),
     Priority |-> StrCell(priority),
     Funding_Request |-> request,
     Funding_Award |-> award,
     Total_Score |-> score,
     Score_Impact |-> NaN,
     Score_Principles |-> NaN,
     Score_Capacity |-> NaN,
     Score_Collab |-> NaN,
     App_Type |-> app_type,
     Priority_Category |-> priority]

\* Social Services applications: funded and not, in two priority categories
\* and two years, with requests and scores inside, on the edge of and
\* outside the bins
SocialRows ==
    {TableRecord(SocialServices, HA, AcmeCorp, 2022, Num(10000), Num(12500), Num(88)),
     TableRecord(SocialServices, HA, AcmeCorp, 2023, NaN, Num(20000), Num(80)),
     TableRecord(SocialServices, EO, BetaInc, 2022, Num(10000), Num(0), Num(0)),
     TableRecord(SocialServices, EO, BetaInc, 2023, NaN, Num(600000), Num(101)),
     TableRecord(SocialServices, HA, BetaInc, 2022, Num(10000), NaN, NaN),
     TableRecord(SocialServices, EO, AcmeCorp, 2022, Num(10000), Num(40000), Num(75))}

ConstructionRows ==
    {TableRecord(ConstructionDevelopment, HA, AcmeCorp, 2022, Num(10000), Num(150000), Num(72)),
     TableRecord(ConstructionDevelopment, NI, BetaInc, 2023, NaN, Num(500000), Num(100)),
     TableRecord(ConstructionDevelopment, NI, BetaInc, 2022, Num(10000), Num(0), NaN)}

\* tables with applications of both categories
PageTables ==
    {ss \o <<con>> :
        ss \in TokenSeqs(SocialRows, MaxRows) \ {<< >>},
        con \in ConstructionRows}

InitPages ==
    /\ pc = "report"
    /\ arg = NoCell
    /\ res = NoResult
    /\ script = "hw3_final_analysis"
    /\ workbook = << >>
    /\ all_data = << >>
    /\ table \in {[NoFiles EXCEPT ![DATA_FILE] = to_csv(DATA_FILE, rows)] :
                     rows \in PageTables}
    /\ report = << >>
    /\ runs = << << >> >>

\* df[df['App_Type'] == app_type]
OfType(df, app_type) ==
    SelectSeq(df, LAMBDA r : r.App_Type = StrCell(app_type))

\* the rows of d a groupby on Priority_Category and Year puts in the group
\* of category c: rows with a missing key are left out
InCategory(d, c) ==
    {k \in DOMAIN d : d[k].Priority_Category = StrCell(c) /\ notna(d[k].Year)}

\* (Total_Funded / Total_Applied * 100).round(0): a tie goes to the even
\* integer
FundPercent(funded, applied) ==
    LET q == (funded * 100) \div applied
        r == (funded * 100) % applied
    IN IF 2 * r > applied THEN q + 1
       ELSE IF 2 * r = applied THEN q + (q % 2)
       ELSE q

\* priority_ss_table and priority_con_table before astype(int): a category
\* that is not in the index of the funded frame gets no Total_Funded
PriorityTable(d) ==
    LET cats == {d[k].Priority_Category.s :
                    k \in {j \in DOMAIN d : ~isna(d[j].Priority_Category)
                                              /\ notna(d[j].Year)}}
    IN [c \in cats |->
           LET applied == Cardinality(InCategory(d, c))
               funded == Cardinality({k \in InCategory(d, c) :
                                         notna(d[k].Funding_Award)})
           IN [Total_Applied |-> applied,
               Total_Funded |-> IF funded = 0 THEN None ELSE Some(funded),
               Fund |-> IF funded = 0 THEN None
                        ELSE Some(FundPercent(funded, applied))]]

\* astype(int) raises on a column that holds a missing value
CastRaises(t) == \E c \in DOMAIN t : ~t[c].Fund.some

\* page 5: the table of Social Services is written before the table of
\* Construction/Development is built
PriorityTables ==
    /\ pc = "loaded"
    /\ script = "hw3_final_analysis"
    /\ \E ss \in {PriorityTable(OfType(read_csv(table[DATA_FILE].rows),
                                       SocialServices))} :
       \E con \in {PriorityTable(OfType(read_csv(table[DATA_FILE].rows),
                                        ConstructionDevelopment))} :
          IF CastRaises(ss)
          THEN /\ res' = [res EXCEPT !.error = "IntCastingNaNError",
                                     !.at = "priority_ss_table"]
               /\ report' = [page |-> 5]
               /\ pc' = "raised"
          ELSE IF CastRaises(con)
          THEN /\ res' = [res EXCEPT !.error = "IntCastingNaNError",
                                     !.at = "priority_con_table",
                                     !.assets = @ \cup {"page5_priority_ss.csv"}]
               /\ report' = [page |-> 5, priority_ss_table |-> ss]
               /\ pc' = "raised"
          ELSE /\ res' = [res EXCEPT !.assets = @ \cup {"page5_priority_ss.csv",
                                                       "page5_priority_con.csv"}]
               /\ report' = [page |-> 5, priority_ss_table |-> ss,
                             priority_con_table |-> con]
               /\ pc' = "page5"
    /\ UNCHANGED <<arg, script, workbook, all_data, table, runs>>

\* the digits of n * 10^frac
Scaled(n, frac) ==
    IF n = 0 THEN <<"0">> ELSE NatToText(n) \o [i \in 1..frac |-> "0"]

\* x > n for a float x >= 0 and a natural number n
Above(x, n) ==
    LET a == Scaled(n, x.frac)
    IN \/ Len(a) < Len(x.mant)
       \/ Len(a) = Len(x.mant) /\ TextLess(a, x.mant)

\* pd.cut(x, bins=bins, labels=labels): label i is the interval
\* (bins[i], bins[i+1]]; "nan" for a value in no interval
cut(x, bins, labels) ==
    IF x.k # "num" \/ x.neg THEN "nan"
    ELSE LET hits == {i \in DOMAIN labels :
                         Above(x, bins[i]) /\ ~Above(x, bins[i + 1])}
         IN IF hits = {} THEN "nan" ELSE labels[CHOOSE i \in hits : TRUE]

bins == <<0, 20000, 40000, 60000, 80000, 100000, 120000, 140000, 200000, 500000>>

labels == <<"0-20k", "20-40k", "40-60k", "60-80k", "80-100k", "100-120k",
            "120-140k", "140-200k", "200k+">>

score_bins == <<0, 75, 80, 85, 90, 95, 100>>

score_labels == <<"0-75", "75-80", "80-85", "85-90", "90-95", "95-100">>

\* d.groupby(['Year', range], observed=True).size(), range the labels of the
\* rows of d: the number of rows of each observed pair of a year and a label
Distribution(d, range) ==
    LET grouped == {k \in DOMAIN d : notna(d[k].Year) /\ range[k] # "nan"}
    IN [key \in {<<d[k].Year, range[k]>> : k \in grouped} |->
           Cardinality({k \in grouped : <<d[k].Year, range[k]>> = key})]

funding(d) ==
    Distribution(d, [k \in DOMAIN d |-> cut(d[k].Funding_Request, bins, labels)])

score_dist(d) ==
    Distribution(d, [k \in DOMAIN d |-> cut(d[k].Total_Score, score_bins,
                                            score_labels)])

\* page 6: sns.heatmap raises ValueError on a frame without a row
FundingDistribution ==
    /\ pc = "page5"
    /\ script = "hw3_final_analysis"
    /\ \E ss \in {funding(OfType(read_csv(table[DATA_FILE].rows),
                                 SocialServices))} :
       \E con \in {funding(OfType(read_csv(table[DATA_FILE].rows),
                                  ConstructionDevelopment))} :
          /\ report' = [page |-> 6, funding_ss |-> ss, funding_con |-> con]
          /\ IF DOMAIN ss = {} \/ DOMAIN con = {}
             THEN /\ res' = [res EXCEPT !.error = "ValueError",
                                        !.at = "sns.heatmap"]
                  /\ pc' = "raised"
             ELSE /\ res' = [res EXCEPT !.assets =
                                 @ \cup {"page6_funding_distribution.png"}]
                  /\ pc' = "page6"
    /\ UNCHANGED <<arg, script, workbook, all_data, table, runs>>

\* page 8: a bar plot raises TypeError on a frame without a row
ScoreDistribution ==
    /\ pc = "page6"
    /\ script = "hw3_final_analysis"
    /\ \E ss \in {score_dist(OfType(read_csv(table[DATA_FILE].rows),
                                    SocialServices))} :
       \E con \in {score_dist(OfType(read_csv(table[DATA_FILE].rows),
                                     ConstructionDevelopment))} :
          /\ report' = [page |-> 8, score_dist_ss |-> ss, score_dist_con |-> con]
          /\ IF DOMAIN ss = {} \/ DOMAIN con = {}
             THEN /\ res' = [res EXCEPT !.error = "TypeError",
                                        !.at = "plot"]
                  /\ pc' = "raised"
             ELSE /\ res' = [res EXCEPT !.assets =
                                 @ \cup {"page8_score_distribution.png"}]
                  /\ pc' = "page8"
    /\ UNCHANGED <<arg, script, workbook, all_data, table, runs>>

NextPages ==
    \/ StartFinalAnalysis
    \/ PriorityTables
    \/ FundingDistribution
    \/ ScoreDistribution

SpecPages == InitPages /\ [][NextPages]_vars

\* the applications of a category and a priority category in the table
Applications(app_type, c) ==
    {k \in DOMAIN table[DATA_FILE].rows :
        /\ table[DATA_FILE].rows[k].App_Type = app_type
        /\ table[DATA_FILE].rows[k].Priority_Category = c}

\* the row of priority category c in a priority table is there and holds
\* the rounded percentage of the funded applications
PriorityRowStated(t, app_type, c) ==
    LET applied == Cardinality(Applications(app_type, c))
        funded == Cardinality({k \in Applications(app_type, c) :
                                  notna(table[DATA_FILE].rows[k].Funding_Award)})
    IN /\ c \in DOMAIN t
       /\ t[c].Total_Applied = applied
       /\ t[c].Fund = Some(FundPercent(funded, applied))

\* C22: in the priority tables of page 5 every priority category with an
\* application in the category has a row with Fund_% = round(Total_Funded /
\* Total_Applied * 100), a category without a funded application included,
\* and the tables are generated without error.
C22_PriorityTablesComplete ==
    (\/ pc = "page5"
     \/ pc = "raised" /\ res.at \in {"priority_ss_table", "priority_con_table"})
        => /\ pc = "page5"
           /\ \A c \in PriorityCategories :
                  /\ Applications(SocialServices, c) # {}
                         => PriorityRowStated(report.priority_ss_table,
                                              SocialServices, c)
                  /\ Applications(ConstructionDevelopment, c) # {}
                         => PriorityRowStated(report.priority_con_table,
                                              ConstructionDevelopment, c)

RECURSIVE CountedIn(_, _, _)
\* the sum of the counts of a distribution over the labels ls for year y
CountedIn(dist, y, ls) ==
    IF ls = << >> THEN 0
    ELSE (IF <<y, Head(ls)>> \in DOMAIN dist THEN dist[<<y, Head(ls)>>] ELSE 0)
             + CountedIn(dist, y, Tail(ls))

\* the records of a category and a year in the table whose value is present
Present(app_type, y, value) ==
    {k \in DOMAIN table[DATA_FILE].rows :
        /\ table[DATA_FILE].rows[k].App_Type = app_type
        /\ table[DATA_FILE].rows[k].Year = y
        /\ notna(value[k])}

Requests == [k \in DOMAIN table[DATA_FILE].rows |->
                table[DATA_FILE].rows[k].Funding_Request]

Scores == [k \in DOMAIN table[DATA_FILE].rows |->
              table[DATA_FILE].rows[k].Total_Score]

YearsOfTable == {table[DATA_FILE].rows[k].Year : k \in DOMAIN table[DATA_FILE].rows}

\* C27: in the funding distribution of page 6 and in the score distribution
\* of page 8 every record with a present Request, respectively Total_Score,
\* is counted in exactly one bucket of its year: the counts of the buckets
\* of a year add up to the number of such records.
C27_EveryValueInOneBucket ==
    /\ (pc \in {"page6", "raised"} /\ report # << >> /\ report.page = 6)
           => \A y \in YearsOfTable :
                  /\ CountedIn(report.funding_ss, y, labels)
                         = Cardinality(Present(SocialServices, y, Requests))
                  /\ CountedIn(report.funding_con, y, labels)
                         = Cardinality(Present(ConstructionDevelopment, y, Requests))
    /\ (pc \in {"page8", "raised"} /\ report # << >> /\ report.page = 8)
           => \A y \in YearsOfTable :
                  /\ CountedIn(report.score_dist_ss, y, score_labels)
                         = Cardinality(Present(SocialServices, y, Scores))
                  /\ CountedIn(report.score_dist_con, y, score_labels)
                         = Cardinality(Present(ConstructionDevelopment, y, Scores))

\* C25: in the statistics per organization the funded count never exceeds
\* the submitted count, every reported organization has a submitted count of
\* at least 1, and the funding rate lies between 0 and 100 percent.
C25_FundedWithinSubmitted ==
    pc = "visualized" =>
        \A i \in DOMAIN report :
            /\ report[i].Funded_Apps <= report[i].Total_Apps
            /\ report[i].Total_Apps >= 1
            /\ report[i].Funding_Rate.k = "num"
            /\ ~Above(report[i].Funding_Rate, 100)

=============================================================================
